---- MODULE Spec2Model ----
(***************************************************************************)
(* CRIU checkpoint/migration experiment orchestrator.                      *)
(*                                                                         *)
(* Spec     : one call of CRIUExperiment.run() (lib/criu_utils.py) on a    *)
(*            configuration drawn in Init, with the remote commands'       *)
(*            outcomes chosen nondeterministically.                        *)
(* SpecMgr  : the operations of CheckpointManager and TransferManager      *)
(*            (lib/checkpoint.py, lib/transfer.py) applied to arguments    *)
(*            drawn from small sets.                                       *)
(* SpecLazy : the pure argument derivation of LazyConfig                   *)
(*            (lib/lazy_mode.py).                                          *)
(***************************************************************************)
EXTENDS Integers, Sequences, FiniteSets, TLC

VARIABLES
    cfg,                  \* the loaded configuration (self.config)
    workload,             \* self.workload: "unset" | "set"
    pc,                   \* position of the control node
    i,                    \* loop variable of _run_predump_strategy
    checkpoint_iteration, \* self.checkpoint_iteration
    workload_pid,         \* self.workload_pid: 0 = None
    lazy_config,          \* LazyConfig built in _run_final_dump (NoLazyConfig before)
    dirty_tracker,        \* self._dirty_tracker: "none" | "started"
    sigterms,             \* number of stop signals sent to the remote tracker
    ssh_clients,          \* hosts with a pooled SSHClient
    srcDirs,              \* numbered directories under working_dir on the source
    dstDirs,              \* numbered directories under working_dir on the destination
    issued,               \* CRIU / transfer commands handed to the hosts, in order
    pre_dump_iterations,  \* metrics: recorded pre-dump phases
    phases,               \* orchestrator states passed so far
    envOk,                \* no remote command or local subprocess has failed so far
    result,               \* return value of run()
    lazy_args,            \* SpecLazy: the argument vectors computed last
    ebsDirs,              \* directories on the EBS mount of the source
    bucket,               \* directories uploaded to the object store
    images,               \* source directories holding the images of a dump that CRIU completed
    loop,                 \* local variables of the polling loop in progress (NoLoop outside one)
    ready_seen,           \* a poll of wait_for_ready has seen the readiness file
    dstPages,             \* destination directories whose pages-*.img a transfer has put there
    metrics_file,         \* documents save_to_file has written: <<>> or <<document>>
    exit_code,            \* what main returned: <<>> before it returns, then <<0>> or <<1>>
    args,                 \* parsed command line of main: collect_logs, no_cleanup
    collect_logs_calls,   \* number of calls of CheckpointManager.collect_logs
    scripts,              \* hosts whose working_dir holds the workload's standalone script
    pool,                 \* CheckpointManager.ssh_clients in full: host -> SSHClient
    tracker_binaries,     \* tracker backends whose binary a probe finds on the host
    selected_tracker,     \* RemoteDirtyTracker._selected_tracker
    tracker_type,         \* RemoteDirtyTracker.tracker_type
    flags,                \* hosts in whose working_dir the file checkpoint_flag exists
    procs,                \* the workload process on each host: none, running, dumped, exited
    clock,                \* the value time.time() returned last
    active_timers,        \* MetricsCollector._active_timers: name -> start time
    custom_metrics,       \* ExperimentMetrics.custom_metrics: name -> TimingMetric
    metric,               \* what stop_timer returned last: <<>> or <<TimingMetric>>
    readable,             \* <<host, directory>>: checkpoint directories made readable (chmod -R a+r)
    alive,                \* the PIDs that exist under /proc on the tracked host
    track_children,       \* DirtyPageTracker.track_children
    tracking_thread,      \* DirtyPageTracker._tracking_thread: <<>> (None) or <<thread id>>
    stop_event,           \* DirtyPageTracker._stop_event
    samples,              \* DirtyPageTracker.samples
    process_trackers,     \* keys of DirtyPageTracker._process_trackers
    known_pids,           \* DirtyPageTracker._known_pids
    dead_pids,            \* DirtyPageTracker._dead_pids
    fresh,                \* tracked PIDs whose soft-dirty bits the tracker has cleared
    threads,              \* every thread start() created: its position and its local tracked_pids
    lock,                 \* DirtyPageTracker._lock: 0 or the thread holding it
    caller,               \* the thread calling start() and stop(): "idle" | "joining"
    last_call,            \* how the last start() or stop() ended
    num_iterations,       \* _run_predump_strategy: predump_iterations
    interval,             \* _run_predump_strategy: predump_interval, in seconds
    pace,                 \* per iteration of the loop: its start, what it measured and slept
    transfer_dest_dir,             \* TransferManager.dest_dir: <<>> (None) or <<path>>
    placed,               \* <<>> or <<where the transfer put the final checkpoint>>
    dest_checkpoint_dir,  \* <<>> or <<the directory _restore passes to the restore>>
    teardown              \* what the finally clause of run() has done, in order

vars == <<cfg, workload, pc, i, checkpoint_iteration, workload_pid, lazy_config,
          dirty_tracker, sigterms, ssh_clients, srcDirs, dstDirs, issued,
          pre_dump_iterations, phases, envOk, result, lazy_args, ebsDirs, bucket,
          images, loop, ready_seen, dstPages, metrics_file, exit_code,
          args, collect_logs_calls, scripts, pool, tracker_binaries, selected_tracker,
          tracker_type, flags, procs, clock, active_timers, custom_metrics, metric, readable,
          alive, track_children, tracking_thread, stop_event, samples, process_trackers,
          known_pids, dead_pids, fresh, threads, lock, caller, last_call,
          num_iterations, interval, pace, transfer_dest_dir, placed, dest_checkpoint_dir,
          teardown>>

\* the state of the MetricsCollector's timers
timerVars == <<clock, active_timers, custom_metrics, metric>>

mirrorVars == <<transfer_dest_dir, placed, dest_checkpoint_dir>>

paceVars == <<num_iterations, interval, pace>>

samplerVars == <<alive, track_children, tracking_thread, stop_event, samples, process_trackers,
                 known_pids, dead_pids, fresh, threads, lock, caller, last_call>>

(***************************************************************************)
(* Bounds of the model.                                                    *)
(***************************************************************************)
MaxIter == 2          \* largest predump_iterations explored
MaxCalls == 2         \* SpecMgr: number of manager operations explored
MaxReadyTimeout == 1  \* largest readiness timeout of a configuration, in seconds
MaxTargetMb == 1      \* largest target_memory_mb explored

Dirs == 1..(MaxIter + 1)

(***************************************************************************)
(* Program constants.                                                      *)
(***************************************************************************)
DefaultPort == 27             \* LazyConfig.page_server_port
MgrDefaultPort == 22222       \* default page_server_port of final_dump / restore
DefaultWorkers == 4           \* LazyConfig.prefetch_workers
SettleSecs == 2               \* time.sleep(2) after launching the lazy-pages daemon

SOURCE == "10.0.0.1"
DEST == "10.0.0.2"
BindAddress == "0.0.0.0"
None == "None"

Hosts == {SOURCE, DEST}
Ports == {DefaultPort, DefaultPort + 1, MgrDefaultPort}
Workers == {1, DefaultWorkers, DefaultWorkers + 4}
LazyModes == {"none", "lazy", "lazy-prefetch", "live-migration", "live-migration-prefetch"}
Methods == {"rsync", "s3", "efs", "ebs"}
Strategies == {"predump", "full"}
WorkloadTypes == {"memory", "redis"}

(***************************************************************************)
(* LazyConfig (lib/lazy_mode.py): the pure policy functions.  An argument  *)
(* vector is a sequence of strings, as the code builds it (numbers go      *)
(* through str()).                                                         *)
(***************************************************************************)
LazyConfig(mode, port, workers) ==
    [mode |-> mode, page_server_port |-> port,
     page_server_address |-> BindAddress, prefetch_workers |-> workers]

\* no LazyConfig has been built yet
NoLazyConfig == [mode |-> "unset"]

\* the mode compared with Python's None instead of LazyMode.NONE
requires_lazy_pages_vsNone(lc) == lc.mode # None

requires_lazy_pages(lc) == lc.mode # "none"

requires_page_server(lc) == lc.mode \in {"live-migration", "live-migration-prefetch"}

requires_s3(lc) == lc.mode \in {"lazy-prefetch", "live-migration-prefetch"}

has_async_prefetch(lc) == lc.mode \in {"lazy-prefetch", "live-migration-prefetch"}

\* the dump arguments keyed on requires_lazy_pages instead of requires_page_server
get_dump_args_AnyLazy(lc) ==
    IF ~requires_lazy_pages(lc) THEN <<>>
    ELSE <<"--lazy-pages", "--address", lc.page_server_address,
           "--port", ToString(lc.page_server_port)>>

get_dump_args(lc) ==
    IF ~requires_page_server(lc) THEN <<>>
    ELSE <<"--lazy-pages", "--address", lc.page_server_address,
           "--port", ToString(lc.page_server_port)>>

get_restore_args(lc) ==
    IF ~requires_lazy_pages(lc) THEN <<>> ELSE <<"--lazy-pages">>

get_lazy_pages_daemon_args(lc, page_server_host) ==
    IF ~requires_lazy_pages(lc) THEN <<>>
    ELSE (IF requires_page_server(lc) /\ page_server_host # None
          THEN <<"--page-server", "--address", page_server_host,
                 "--port", ToString(lc.page_server_port)>>
          ELSE <<>>)
         \o
         (IF has_async_prefetch(lc)
          THEN <<"--async-prefetch", "--prefetch-workers", ToString(lc.prefetch_workers)>>
          ELSE <<>>)

(***************************************************************************)
(* Remote commands.  A command is recorded with the flags the code put on  *)
(* its command line: prev = <<N>> stands for "--prev-images-dir ../N" and  *)
(* prev = <<>> for its absence; lazy for "--lazy-pages"; addr and port for *)
(* "--address A --port P" (None and 0 when absent); tcp for                *)
(* "--tcp-established"; st is the exit status the host reported ("bg" for  *)
(* a command handed over with execute_background); call numbers the        *)
(* operation that issued the command.                                      *)
(***************************************************************************)
Cmd(op, host, dir, prev, lazy, addr, port, tcp, st, call) ==
    [op |-> op, host |-> host, dir |-> dir, prev |-> prev, lazy |-> lazy,
     addr |-> addr, port |-> port, tcp |-> tcp, st |-> st, call |-> call]

NextCall == IF issued = <<>> THEN 1 ELSE issued[Len(issued)].call + 1

\* mkdir -p working_dir/n on a host; with method efs the working directory
\* is the shared file system and both hosts see the directory
MkdirP(host, n) ==
    /\ srcDirs' = IF host = SOURCE \/ cfg.method = "efs" THEN srcDirs \cup {n} ELSE srcDirs
    /\ dstDirs' = IF host = DEST \/ cfg.method = "efs" THEN dstDirs \cup {n} ELSE dstDirs

\* --prev-images-dir added from the first iteration on (off by one)
PreDumpCmd_PrevFromFirst(host, iteration, workload_type, st) ==
    Cmd("pre-dump", host, iteration,
        IF iteration > 0 THEN <<iteration - 1>> ELSE <<>>,
        FALSE, None, 0, workload_type = "redis", st, NextCall)

\* criu pre-dump command line built by CheckpointManager.pre_dump
PreDumpCmd(host, iteration, workload_type, st) ==
    Cmd("pre-dump", host, iteration,
        IF iteration > 1 THEN <<iteration - 1>> ELSE <<>>,
        FALSE, None, 0, workload_type = "redis", st, NextCall)

\* what an error record holds of the CRIU log: the output of tail -30
LogTail == "tail -30"

\* CheckpointManager.pre_dump: directory, command, chmod -R a+r; the result
\* is built by the caller
pre_dump(host, iteration, workload_type, st) ==
    /\ MkdirP(host, iteration)
    /\ issued' = Append(issued, PreDumpCmd(host, iteration, workload_type, st))
    /\ readable' = readable \cup {<<host, iteration>>}

(***************************************************************************)
(* CRIUExperiment.run()                                                    *)
(***************************************************************************)
\* outside a polling loop
NoLoop == [name |-> "none"]

Configs ==
    [strategy : Strategies, predump_iterations : 0..MaxIter,
     lazy_mode : LazyModes, page_server_port : Ports, prefetch_workers : Workers,
     method : Methods, workload_type : WorkloadTypes,
     track_dirty_pages : BOOLEAN, target_memory : BOOLEAN,
     ready_timeout : 0..MaxReadyTimeout]

\* the program starts in main, or a caller that has built the experiment
\* itself (with or without set_workload) calls run()
\* the hosts that see a file written into working_dir on host h: with method
\* efs the working directory is the shared file system
WorkingDirHosts(h) == IF cfg.method = "efs" THEN Hosts ELSE {h}

\* a MetricsCollector no timer of which has been started
\* the most threads one DirtyPageTracker is started with, the PIDs of the
\* tracked host, the samples one session collects
MaxStarts == 2
MaxPid == 3
MaxSamples == 2
Tids == 1..MaxStarts
Pids == 1..MaxPid
\* DirtyPageTracker.root_pid
root_pid == 1
NoThread == [at |-> "none", tracked_pids |-> {}]

\* DirtyPageTracker.__init__: no thread, no sample, nothing tracked
NoSampler ==
    /\ alive = {}
    /\ track_children = FALSE
    /\ tracking_thread = <<>>
    /\ stop_event = FALSE
    /\ samples = <<>>
    /\ process_trackers = {}
    /\ known_pids = {}
    /\ dead_pids = {}
    /\ fresh = {}
    /\ threads = [t \in Tids |-> NoThread]
    /\ lock = 0
    /\ caller = "idle"
    /\ last_call = "none"

\* no transfer and no restore has been made
NoMirror ==
    /\ transfer_dest_dir = <<>>
    /\ placed = <<>>
    /\ dest_checkpoint_dir = <<>>

\* no pre-dump loop has run
NoPace ==
    /\ num_iterations = 0
    /\ interval = 0
    /\ pace = <<>>

NoTimers ==
    /\ clock = 0
    /\ active_timers = [n \in {} |-> 0]
    /\ custom_metrics = [n \in {} |-> 0]
    /\ metric = <<>>

\* the empty ssh_clients dictionary
NoClients == [h \in {} |-> None]

Init ==
    /\ cfg \in Configs
    /\ pc \in {"main", "run"}
    /\ workload \in IF pc = "main" THEN {"unset"} ELSE {"unset", "set"}
    /\ i = 0
    /\ checkpoint_iteration = 0
    /\ workload_pid = 0
    /\ lazy_config = NoLazyConfig
    /\ dirty_tracker = "none"
    /\ sigterms = 0
    /\ ssh_clients = {}
    /\ srcDirs \in SUBSET Dirs       \* what an earlier run left behind
    /\ dstDirs \in {d \in {{}, srcDirs} : cfg.method = "efs" => d = srcDirs}
    /\ issued = <<>>
    /\ pre_dump_iterations = <<>>
    /\ phases = <<"Init">>
    /\ envOk = TRUE
    /\ result = "none"
    /\ lazy_args = <<>>
    /\ ebsDirs = {}
    /\ bucket = {}
    /\ images = {}
    /\ loop = NoLoop
    /\ ready_seen = FALSE
    /\ dstPages = dstDirs
    /\ metrics_file = <<>>
    /\ exit_code = <<>>
    /\ args \in [collect_logs : BOOLEAN, no_cleanup : {FALSE}]
    /\ collect_logs_calls = 0
    /\ scripts = IF workload = "set" THEN {SOURCE, DEST} ELSE {}
    /\ pool = NoClients
    /\ tracker_binaries = {}
    /\ selected_tracker = None
    /\ tracker_type = "auto"
    /\ flags = {}
    /\ procs = [h \in Hosts |-> "none"]
    /\ teardown = <<>>
    /\ readable = {}
    /\ NoSampler
    /\ NoPace
    /\ NoMirror
    /\ NoTimers

\* main leaves through return or sys.exit with this code
Exit(code) ==
    /\ exit_code' = <<code>>
    /\ pc' = "exit"

\* main up to the deployment: CRIUExperiment(...), WorkloadFactory.create and
\* validate_config; FileNotFoundError and ValueError have except clauses of
\* their own, which log and return 1
CreateExperiment ==
    /\ pc = "main"
    /\ \E raised \in {"none", "FileNotFoundError", "ValueError"} :
         IF raised = "none"
         THEN pc' = "deploy_source" /\ UNCHANGED exit_code
         ELSE Exit(1)
    /\ UNCHANGED <<readable, flags, procs, tracker_type, pool, timerVars, samplerVars, paceVars, mirrorVars, teardown, tracker_binaries, selected_tracker, args, collect_logs_calls, scripts, metrics_file, dstPages, loop, ready_seen, images, cfg, workload, i, checkpoint_iteration, workload_pid, lazy_config,
                   dirty_tracker, sigterms, ssh_clients, srcDirs, dstDirs, issued,
                   pre_dump_iterations, phases, envOk, result, lazy_args, ebsDirs, bucket>>

\* main: workload.prepare on the source, then on the destination (deploy
\* writes the script into working_dir over a connection of its own and
\* closes it); a failed prepare ends the program with sys.exit(1), which no
\* except clause of main catches; after both, set_workload
DeployWorkload ==
    /\ pc \in {"deploy_source", "deploy_dest"}
    /\ LET host == IF pc = "deploy_source" THEN SOURCE ELSE DEST
       IN \E prepared \in BOOLEAN :
            IF prepared
            THEN /\ scripts' = scripts \cup {host}
                 /\ pc' = IF host = SOURCE THEN "deploy_dest" ELSE "run"
                 /\ workload' = IF host = SOURCE THEN workload ELSE "set"
                 /\ UNCHANGED exit_code
            ELSE /\ Exit(1)
                 /\ UNCHANGED <<scripts, workload>>
    /\ UNCHANGED <<readable, flags, procs, tracker_type, pool, timerVars, samplerVars, paceVars, mirrorVars, teardown, tracker_binaries, selected_tracker, args, collect_logs_calls, metrics_file, dstPages, loop, ready_seen, images, cfg, i, checkpoint_iteration, workload_pid, lazy_config,
                   dirty_tracker, sigterms, ssh_clients, srcDirs, dstDirs, issued,
                   pre_dump_iterations, phases, envOk, result, lazy_args, ebsDirs, bucket>>

\* an exception leaves the try block: the except clause builds the result
Raise(err) ==
    /\ result' = [success |-> FALSE, error |-> err]
    /\ pc' = "finally"

\* _prepare_nodes: cleanup_and_prepare on both hosts (rm -rf, mkdir -p)
PrepareNodes ==
    /\ pc = "run"
    /\ srcDirs' = {}
    /\ dstDirs' = {}
    /\ dstPages' = {}
    /\ scripts' = {}
    /\ flags' = {}
    /\ readable' = {}
    /\ ssh_clients' = ssh_clients \cup {SOURCE, DEST}
    /\ phases' = Append(phases, "PreparedNodes")
    /\ pc' = "start_workload"
    /\ UNCHANGED <<procs, tracker_type, pool, timerVars, samplerVars, paceVars, mirrorVars, teardown, tracker_binaries, selected_tracker, args, collect_logs_calls, exit_code, metrics_file, loop, ready_seen, images, cfg, workload, i, checkpoint_iteration, workload_pid, lazy_config,
                   dirty_tracker, sigterms, issued, pre_dump_iterations, envOk,
                   result, lazy_args, ebsDirs, bucket>>

\* _start_workload up to the return of CheckpointManager.start_workload
StartWorkload ==
    /\ pc = "start_workload"
    /\ \/ /\ workload = "unset"
          /\ Raise("Workload not set")
          /\ UNCHANGED <<workload_pid, envOk, phases, loop, scripts, flags, procs>>
       \/ /\ workload = "set"
          /\ \E outcome \in {"ok", "prepare_failed", "no_pid"} :
               /\ IF outcome = "ok"
                  THEN /\ workload_pid' = 1
                       /\ pc' = "wait_for_ready"
                       /\ loop' = [name |-> "wait_for_ready", elapsed |-> 0]
                       /\ UNCHANGED <<envOk, result, phases>>
                  ELSE /\ Raise(outcome)
                       /\ envOk' = FALSE
                       /\ UNCHANGED <<workload_pid, phases, loop>>
               /\ scripts' = IF outcome = "prepare_failed" THEN scripts ELSE scripts \cup {SOURCE}
               /\ flags' = IF outcome = "prepare_failed" THEN flags ELSE flags \cup WorkingDirHosts(SOURCE)
               /\ procs' = IF outcome = "ok" THEN [procs EXCEPT ![SOURCE] = "running"] ELSE procs
    /\ UNCHANGED <<readable, tracker_type, pool, timerVars, samplerVars, paceVars, mirrorVars, teardown, tracker_binaries, selected_tracker, args, collect_logs_calls, exit_code, metrics_file, dstPages, ready_seen, images, cfg, workload, i, checkpoint_iteration, lazy_config, dirty_tracker,
                   sigterms, ssh_clients, srcDirs, dstDirs, issued,
                   pre_dump_iterations, lazy_args, ebsDirs, bucket>>

\* time is counted in ticks of half a second, the sleep of wait_for_ready
TicksPerSec == 2

\* what every step of wait_for_ready leaves alone
ReadyUnchanged ==
    UNCHANGED <<readable, flags, procs, tracker_type, pool, timerVars, samplerVars, paceVars, mirrorVars, teardown, tracker_binaries, selected_tracker, args, collect_logs_calls, scripts, exit_code, metrics_file, dstPages, images, cfg, workload, i, checkpoint_iteration, workload_pid, lazy_config,
                dirty_tracker, sigterms, ssh_clients, srcDirs, dstDirs, issued,
                pre_dump_iterations, lazy_args, ebsDirs, bucket>>

\* CheckpointManager.wait_for_ready, one iteration of the while loop: the
\* test for the ready file, then return or sleep 0.5 s
ReadyPoll ==
    /\ pc = "wait_for_ready"
    /\ loop.elapsed < cfg.ready_timeout * TicksPerSec
    /\ \E exists \in BOOLEAN :
         IF exists
         THEN /\ ready_seen' = TRUE
              /\ loop' = NoLoop
              /\ phases' = Append(phases, "WorkloadRunning")
              /\ pc' = "dirty_tracking"
         ELSE /\ loop' = [loop EXCEPT !.elapsed = @ + 1]
              /\ UNCHANGED <<ready_seen, phases, pc>>
    /\ UNCHANGED <<result, envOk>>
    /\ ReadyUnchanged

\* the timeout of wait_for_ready is only logged and the run goes on
ReadyTimeout_Proceeds ==
    /\ pc = "wait_for_ready"
    /\ loop.elapsed >= cfg.ready_timeout * TicksPerSec
    /\ loop' = NoLoop
    /\ phases' = Append(phases, "WorkloadRunning")
    /\ pc' = "dirty_tracking"
    /\ envOk' = FALSE
    /\ UNCHANGED <<ready_seen, result>>
    /\ ReadyUnchanged

\* CheckpointManager.wait_for_ready, the loop condition fails: TimeoutError
ReadyTimeout ==
    /\ pc = "wait_for_ready"
    /\ loop.elapsed >= cfg.ready_timeout * TicksPerSec
    /\ loop' = NoLoop
    /\ Raise("TimeoutError")
    /\ envOk' = FALSE
    /\ UNCHANGED <<ready_seen, phases>>
    /\ ReadyUnchanged

\* CheckpointManager.wait_for_ready as called at the end of _start_workload
WaitForReady == ReadyPoll \/ ReadyTimeout

\* run(), step 2.5 with _start_dirty_tracking
StartDirtyTracking ==
    /\ pc = "dirty_tracking"
    /\ IF cfg.track_dirty_pages /\ workload_pid # 0
       THEN \E started \in BOOLEAN :
              /\ dirty_tracker' = IF started THEN "started" ELSE "none"
              /\ envOk' = (envOk /\ started)
              /\ phases' = IF started THEN Append(phases, "DirtyTracking") ELSE phases
       ELSE UNCHANGED <<dirty_tracker, envOk, phases>>
    /\ pc' = "strategy"
    /\ UNCHANGED <<readable, flags, procs, tracker_type, pool, timerVars, samplerVars, paceVars, mirrorVars, teardown, tracker_binaries, selected_tracker, args, collect_logs_calls, scripts, exit_code, metrics_file, dstPages, loop, ready_seen, images, cfg, workload, i, checkpoint_iteration, workload_pid, lazy_config,
                   sigterms, ssh_clients, srcDirs, dstDirs, issued,
                   pre_dump_iterations, result, lazy_args, ebsDirs, bucket>>

\* run(), step 3: dispatch on checkpoint.strategy.mode
RunStrategy ==
    /\ pc = "strategy"
    /\ IF cfg.strategy = "predump"
       THEN /\ phases' = Append(phases, "PredumpLoop")
            /\ i' = 1
            /\ pc' = IF cfg.predump_iterations >= 1 THEN "pre_dump" ELSE "final_dump"
       ELSE /\ phases' = Append(phases, "TriggerWait")
            /\ i' = i
            /\ pc' = "trigger"
    /\ UNCHANGED <<readable, flags, procs, tracker_type, pool, timerVars, samplerVars, paceVars, mirrorVars, teardown, tracker_binaries, selected_tracker, args, collect_logs_calls, scripts, exit_code, metrics_file, dstPages, loop, ready_seen, images, cfg, workload, checkpoint_iteration, workload_pid, lazy_config,
                   dirty_tracker, sigterms, ssh_clients, srcDirs, dstDirs, issued,
                   pre_dump_iterations, envOk, result, lazy_args, ebsDirs, bucket>>

\* the loop goes on without a call of record_pre_dump
PreDumpRecorded_NoRecord ==
    /\ pre_dump_iterations' = pre_dump_iterations
    /\ checkpoint_iteration' = i
    /\ i' = i + 1
    /\ pc' = IF i < cfg.predump_iterations THEN "pre_dump" ELSE "final_dump"
    /\ UNCHANGED <<result, envOk>>

\* the pre-dump is recorded and the loop goes on (or ends)
PreDumpRecorded ==
    /\ pre_dump_iterations' = Append(pre_dump_iterations, i)
    /\ checkpoint_iteration' = i
    /\ i' = i + 1
    /\ pc' = IF i < cfg.predump_iterations THEN "pre_dump" ELSE "final_dump"
    /\ UNCHANGED <<result, envOk>>

\* the result of a failed pre-dump is not looked at: the loop goes on
PreDumpFailed_Ignored ==
    /\ pre_dump_iterations' = Append(pre_dump_iterations, i)
    /\ checkpoint_iteration' = i
    /\ i' = i + 1
    /\ pc' = IF i < cfg.predump_iterations THEN "pre_dump" ELSE "final_dump"
    /\ envOk' = FALSE
    /\ UNCHANGED result

\* the pre-dump reported success = False: RuntimeError
PreDumpFailed ==
    /\ Raise("Pre-dump failed")
    /\ envOk' = FALSE
    /\ UNCHANGED <<pre_dump_iterations, checkpoint_iteration, i>>

\* one iteration of the loop of _run_predump_strategy, with pre_dump
PreDump ==
    /\ pc = "pre_dump"
    /\ \E st \in {"ok", "fail"} :
         /\ pre_dump(SOURCE, i, cfg.workload_type, st)
         /\ IF st = "ok" THEN PreDumpRecorded ELSE PreDumpFailed
    /\ UNCHANGED <<flags, procs, tracker_type, pool, timerVars, samplerVars, paceVars, mirrorVars, teardown, tracker_binaries, selected_tracker, args, collect_logs_calls, scripts, exit_code, metrics_file, dstPages, loop, ready_seen, images, cfg, workload, workload_pid, lazy_config, dirty_tracker, sigterms,
                   ssh_clients, phases, lazy_args, ebsDirs, bucket>>

\* _run_full_dump_strategy: memory- or time-based trigger; both go on to the dump
FullTrigger ==
    /\ pc = "trigger"
    /\ pc' = "final_dump"
    /\ UNCHANGED <<readable, flags, procs, tracker_type, pool, timerVars, samplerVars, paceVars, mirrorVars, teardown, tracker_binaries, selected_tracker, args, collect_logs_calls, scripts, exit_code, metrics_file, dstPages, loop, ready_seen, images, cfg, workload, i, checkpoint_iteration, workload_pid, lazy_config,
                   dirty_tracker, sigterms, ssh_clients, srcDirs, dstDirs, issued,
                   pre_dump_iterations, phases, envOk, result, lazy_args,
                   ebsDirs, bucket>>

\* keyword parameters of CheckpointManager.final_dump
FinalDumpParams ==
    {"host", "pid", "last_iteration", "lazy_pages", "page_server_port",
     "username", "workload_type"}

\* keywords of the call in _run_final_dump
FinalDumpCallKeywords == {"lazy_config", "username", "workload_type"}

\* _run_final_dump: builds the LazyConfig, captures the workload log, then
\* calls final_dump(..., lazy_config=...), a keyword final_dump does not
\* have: the call raises TypeError before the body of final_dump runs
RunFinalDump ==
    /\ pc = "final_dump"
    /\ lazy_config' = LazyConfig(cfg.lazy_mode, cfg.page_server_port, cfg.prefetch_workers)
    /\ ~(FinalDumpCallKeywords \subseteq FinalDumpParams)
    /\ Raise("TypeError")
    /\ UNCHANGED <<readable, flags, procs, tracker_type, pool, timerVars, samplerVars, paceVars, mirrorVars, teardown, tracker_binaries, selected_tracker, args, collect_logs_calls, scripts, exit_code, metrics_file, dstPages, loop, ready_seen, images, cfg, workload, i, checkpoint_iteration, workload_pid, dirty_tracker,
                   sigterms, ssh_clients, srcDirs, dstDirs, issued,
                   pre_dump_iterations, phases, envOk, lazy_args, ebsDirs, bucket>>

\* a finally clause that closes the connections before it stops the tracker
Finally_CloseFirst ==
    /\ pc = "finally"
    /\ IF dirty_tracker # "none"
       THEN /\ sigterms' = sigterms + 1
            /\ dirty_tracker' = "none"
       ELSE UNCHANGED <<sigterms, dirty_tracker>>
    /\ ssh_clients' = {}
    /\ teardown' = <<"close_all_connections">>
                    \o (IF dirty_tracker # "none" THEN <<"SIGTERM">> ELSE <<>>)
    /\ pc' = "done"
    /\ UNCHANGED <<readable, flags, procs, tracker_type, pool, timerVars, samplerVars, paceVars, mirrorVars, tracker_binaries, selected_tracker, args, collect_logs_calls, scripts, exit_code, metrics_file, dstPages, loop, ready_seen, images, cfg, workload, i, checkpoint_iteration, workload_pid, lazy_config,
                   srcDirs, dstDirs, issued, pre_dump_iterations, phases, envOk,
                   result, lazy_args, ebsDirs, bucket>>

\* the finally clause of run(): stop a running tracker, close the connections
Finally ==
    /\ pc = "finally"
    /\ IF dirty_tracker # "none"
       THEN /\ sigterms' = sigterms + 1
            /\ dirty_tracker' = "none"
       ELSE UNCHANGED <<sigterms, dirty_tracker>>
    /\ ssh_clients' = {}
    /\ teardown' = (IF dirty_tracker # "none" THEN <<"SIGTERM">> ELSE <<>>)
                    \o <<"close_all_connections">>
    /\ pc' = "done"
    /\ UNCHANGED <<readable, flags, procs, tracker_type, pool, timerVars, samplerVars, paceVars, mirrorVars, tracker_binaries, selected_tracker, args, collect_logs_calls, scripts, exit_code, metrics_file, dstPages, loop, ready_seen, images, cfg, workload, i, checkpoint_iteration, workload_pid, lazy_config,
                   srcDirs, dstDirs, issued, pre_dump_iterations, phases, envOk,
                   result, lazy_args, ebsDirs, bucket>>

\* ExperimentMetrics.to_dict: the fields of the metrics document
to_dict ==
    [experiment_name |-> "experiment", workload_type |-> cfg.workload_type,
     pre_dump_iterations |-> pre_dump_iterations]

\* main with a failure branch that falls through to the return of the success branch
main_ReturnsZero ==
    /\ pc = "done" /\ exit_code = <<>>
    /\ \E raised \in {"none", "collect_logs", "cleanup_processes"} :
         /\ raised = "collect_logs" => (result.success /\ args.collect_logs)
         /\ raised = "cleanup_processes" => (result.success /\ ~args.no_cleanup)
         /\ metrics_file' = IF result.success /\ args.collect_logs /\ raised # "collect_logs"
                            THEN <<to_dict>> ELSE metrics_file
         /\ collect_logs_calls' = IF args.collect_logs
                                  THEN collect_logs_calls + (IF raised = "none" THEN 1 ELSE 2)
                                  ELSE collect_logs_calls
         /\ exit_code' = <<0>>
    /\ ssh_clients' = IF args.collect_logs \/ (result.success /\ ~args.no_cleanup)
                      THEN ssh_clients \cup {SOURCE, DEST} ELSE ssh_clients
    /\ UNCHANGED <<readable, flags, procs, tracker_type, pool, timerVars, samplerVars, paceVars, mirrorVars, teardown, tracker_binaries, selected_tracker, args, scripts, pc, dstPages, loop, ready_seen, images, cfg, workload, i, checkpoint_iteration, workload_pid, lazy_config,
                   dirty_tracker, sigterms, srcDirs, dstDirs, issued,
                   pre_dump_iterations, phases, envOk, result, lazy_args, ebsDirs, bucket>>

\* main, after experiment.run() has returned: the success branch collects
\* the logs when asked to, saves the metrics beside them, cleans the
\* processes up unless told not to and returns 0; the failure branch collects
\* the logs when asked to and returns 1.  collect_logs and cleanup_processes
\* take their sessions from get_ssh_client; when one of them raises in the
\* success branch, the handler of Exception collects the logs (again) when
\* asked to and main returns 1
main ==
    /\ pc = "done" /\ exit_code = <<>>
    /\ \E raised \in {"none", "collect_logs", "cleanup_processes"} :
         /\ raised = "collect_logs" => (result.success /\ args.collect_logs)
         /\ raised = "cleanup_processes" => (result.success /\ ~args.no_cleanup)
         /\ metrics_file' = IF result.success /\ args.collect_logs /\ raised # "collect_logs"
                            THEN <<to_dict>> ELSE metrics_file
         /\ collect_logs_calls' = IF args.collect_logs
                                  THEN collect_logs_calls + (IF raised = "none" THEN 1 ELSE 2)
                                  ELSE collect_logs_calls
         /\ exit_code' = IF result.success /\ raised = "none" THEN <<0>> ELSE <<1>>
    /\ ssh_clients' = IF args.collect_logs \/ (result.success /\ ~args.no_cleanup)
                      THEN ssh_clients \cup {SOURCE, DEST} ELSE ssh_clients
    /\ UNCHANGED <<readable, flags, procs, tracker_type, pool, timerVars, samplerVars, paceVars, mirrorVars, teardown, tracker_binaries, selected_tracker, args, scripts, pc, dstPages, loop, ready_seen, images, cfg, workload, i, checkpoint_iteration, workload_pid, lazy_config,
                   dirty_tracker, sigterms, srcDirs, dstDirs, issued,
                   pre_dump_iterations, phases, envOk, result, lazy_args, ebsDirs, bucket>>

Next ==
    \/ CreateExperiment
    \/ DeployWorkload
    \/ PrepareNodes
    \/ StartWorkload
    \/ WaitForReady
    \/ StartDirtyTracking
    \/ RunStrategy
    \/ PreDump
    \/ FullTrigger
    \/ RunFinalDump
    \/ Finally
    \/ main

Spec == Init /\ [][Next]_vars

(***************************************************************************)
(* The operations of CheckpointManager and TransferManager, applied by a   *)
(* caller to arguments drawn from small sets.  result holds what the last  *)
(* operation returned.                                                     *)
(***************************************************************************)

\* criu dump command line built by CheckpointManager.final_dump
FinalDumpCmd(host, last_iteration, lazy_pages, page_server_port, workload_type, st) ==
    Cmd("dump", host, last_iteration + 1,
        IF last_iteration > 0 THEN <<last_iteration>> ELSE <<>>,
        lazy_pages,
        IF lazy_pages THEN BindAddress ELSE None,
        IF lazy_pages THEN page_server_port ELSE 0,
        workload_type = "redis",
        IF lazy_pages THEN "bg" ELSE st,
        NextCall)

\* CheckpointManager.final_dump: with lazy_pages the command is handed over
\* in the background and success is returned once the files are quiet; the
\* exit status st of CRIU is looked at only for the synchronous dump
final_dump(host, last_iteration, lazy_pages, page_server_port, workload_type, st) ==
    /\ MkdirP(host, last_iteration + 1)
    /\ issued' = Append(issued, FinalDumpCmd(host, last_iteration, lazy_pages,
                                             page_server_port, workload_type, st))
    /\ images' = IF st = "ok" THEN images \cup {last_iteration + 1}
                 ELSE images \ {last_iteration + 1}
    /\ readable' = readable \cup {<<host, last_iteration + 1>>}
    /\ result' = IF lazy_pages \/ st = "ok"
                 THEN [success |-> TRUE, iteration |-> last_iteration + 1,
                       checkpoint_dir |-> last_iteration + 1]
                 ELSE [success |-> FALSE, iteration |-> last_iteration + 1,
                       error |-> "dump failed", log_content |-> LogTail]

\* criu lazy-pages command line built by CheckpointManager.restore
LazyPagesCmd(host, checkpoint_dir, page_server_host, page_server_port) ==
    Cmd("lazy-pages", host, checkpoint_dir, <<>>, FALSE,
        page_server_host, page_server_port, FALSE, "bg", NextCall)

\* criu restore command line built by CheckpointManager.restore
RestoreCmd(host, checkpoint_dir, lazy_pages, workload_type, st) ==
    Cmd("restore", host, checkpoint_dir, <<>>, lazy_pages, None, 0,
        workload_type = "redis", st, NextCall)

\* the commands of one CheckpointManager.restore, in the order they are issued:
\* the lazy-pages daemon (only with lazy_pages and a page_server_host), the
\* settle sleep, then criu restore
RestoreCmds(host, checkpoint_dir, lazy_pages, page_server_host, page_server_port, workload_type, st) ==
    (IF lazy_pages /\ page_server_host # None
     THEN <<LazyPagesCmd(host, checkpoint_dir, page_server_host, page_server_port),
            Cmd("sleep", "control", SettleSecs, <<>>, FALSE, None, 0, FALSE, "ok", NextCall)>>
     ELSE <<>>)
    \o <<RestoreCmd(host, checkpoint_dir, lazy_pages, workload_type, st)>>

\* CheckpointManager.restore
restore(host, checkpoint_dir, lazy_pages, page_server_host, page_server_port, workload_type, st) ==
    /\ issued' = issued \o RestoreCmds(host, checkpoint_dir, lazy_pages, page_server_host,
                                       page_server_port, workload_type, st)
    /\ readable' = readable \cup {<<host, checkpoint_dir>>}
    /\ result' = IF st = "ok" THEN [success |-> TRUE, lazy_pages |-> lazy_pages]
                 ELSE [success |-> FALSE, error |-> "restore failed", log_content |-> LogTail]

\* TransferManager.transfer: where the method puts checkpoint_dir
\*   rsync : from the source into dest_dir on the destination
\*   s3    : upload from the source to the bucket (no download)
\*   efs   : nothing is moved, only "du" is run
\*   ebs   : rsync on the source into the EBS mount
TransferOp(method) ==
    CASE method = "rsync" -> "rsync"
      [] method = "s3" -> "s3-sync-upload"
      [] method = "efs" -> "du"
      [] method = "ebs" -> "rsync-ebs"

transfer(source_host, dest_host, checkpoint_dir, st) ==
    /\ issued' = Append(issued, Cmd(TransferOp(cfg.method), source_host, checkpoint_dir,
                                    <<>>, FALSE, None, 0, FALSE, st, NextCall))
    /\ dstDirs' = IF cfg.method = "rsync" /\ st = "ok"
                  THEN dstDirs \cup {checkpoint_dir} ELSE dstDirs
    /\ dstPages' = IF cfg.method = "rsync" /\ st = "ok"
                   THEN dstPages \cup {checkpoint_dir} ELSE dstPages
    /\ bucket' = IF cfg.method = "s3" /\ st = "ok"
                 THEN bucket \cup {checkpoint_dir} ELSE bucket
    /\ ebsDirs' = IF cfg.method = "ebs" /\ st = "ok"
                  THEN ebsDirs \cup {checkpoint_dir} ELSE ebsDirs
    /\ result' = IF st = "ok" THEN [success |-> TRUE, method |-> cfg.method]
                 ELSE [success |-> FALSE, error |-> "transfer failed"]

\* the modes that fetch pages from the object store
PrefetchModes == {"lazy-prefetch", "live-migration-prefetch"}

InitMgr ==
    /\ cfg \in {c \in Configs : /\ c.strategy = "full"
                                /\ c.predump_iterations = 0
                                /\ c.lazy_mode \in {"none"} \cup PrefetchModes
                                /\ c.page_server_port = DefaultPort
                                /\ c.prefetch_workers = DefaultWorkers
                                /\ ~c.track_dirty_pages
                                /\ ~c.target_memory
                                /\ c.ready_timeout = MaxReadyTimeout}
    /\ workload = "set"
    /\ pc = "mgr"
    /\ i = 0
    /\ checkpoint_iteration = 0
    /\ workload_pid = 1
    /\ lazy_config = NoLazyConfig
    /\ dirty_tracker = "none"
    /\ sigterms = 0
    /\ ssh_clients = {}
    /\ srcDirs \in {1..n : n \in 0..(MaxIter + 1)}   \* checkpoints already on the source
    /\ dstDirs = IF cfg.method = "efs" THEN srcDirs ELSE {}
    /\ issued = <<>>
    /\ pre_dump_iterations = <<>>
    /\ phases = <<>>
    /\ envOk = TRUE
    /\ result = "none"
    /\ lazy_args = <<>>
    /\ ebsDirs = {}
    /\ bucket = {}
    /\ images = {}
    /\ loop = NoLoop
    /\ ready_seen = FALSE
    /\ dstPages = {}
    /\ metrics_file = <<>>
    /\ exit_code = <<>>
    /\ args = [collect_logs |-> FALSE, no_cleanup |-> FALSE]
    /\ collect_logs_calls = 0
    /\ scripts = {}
    /\ pool = NoClients
    /\ tracker_binaries = {}
    /\ selected_tracker = None
    /\ tracker_type = "auto"
    /\ flags = {}
    /\ procs = [h \in Hosts |-> "none"]
    /\ teardown = <<>>
    /\ readable = {}
    /\ NoSampler
    /\ NoPace
    /\ NoMirror
    /\ NoTimers

\* the page-server ports a caller passes
MgrPorts == {DefaultPort, MgrDefaultPort}

MgrUnchanged ==
    UNCHANGED <<flags, procs, tracker_type, pool, timerVars, samplerVars, paceVars, mirrorVars, teardown, tracker_binaries, selected_tracker, args, collect_logs_calls, scripts, exit_code, metrics_file, loop, ready_seen, cfg, workload, pc, i, checkpoint_iteration, workload_pid, lazy_config,
                dirty_tracker, sigterms, ssh_clients, pre_dump_iterations, phases,
                envOk, lazy_args>>

MgrPreDump ==
    /\ pc = "mgr" /\ NextCall <= MaxCalls
    /\ \E iteration \in 1..MaxIter, st \in {"ok", "fail"} :
         /\ pre_dump(SOURCE, iteration, cfg.workload_type, st)
         /\ result' = IF st = "ok" THEN [success |-> TRUE, iteration |-> iteration]
                      ELSE [success |-> FALSE, iteration |-> iteration,
                            error |-> "pre-dump failed", log_content |-> LogTail]
    /\ MgrUnchanged
    /\ UNCHANGED <<ebsDirs, bucket, images, dstPages>>

MgrFinalDump ==
    /\ pc = "mgr" /\ NextCall <= MaxCalls
    /\ \E last_iteration \in 0..MaxIter, lazy_pages \in BOOLEAN,
          page_server_port \in MgrPorts, st \in {"ok", "fail"} :
         /\ ~lazy_pages => page_server_port = MgrDefaultPort
         /\ final_dump(SOURCE, last_iteration, lazy_pages, page_server_port,
                       cfg.workload_type, st)
    /\ MgrUnchanged
    /\ UNCHANGED <<ebsDirs, bucket, dstPages>>

MgrRestore ==
    /\ pc = "mgr" /\ NextCall <= MaxCalls
    /\ \E checkpoint_dir \in Dirs, lazy_pages \in BOOLEAN,
          page_server_host \in {None, SOURCE}, page_server_port \in MgrPorts,
          st \in {"ok", "fail"} :
         /\ ~lazy_pages => page_server_host = None
         /\ page_server_host = None => page_server_port = MgrDefaultPort
         /\ restore(DEST, checkpoint_dir, lazy_pages, page_server_host,
                    page_server_port, cfg.workload_type, st)
    /\ MgrUnchanged
    /\ UNCHANGED <<srcDirs, dstDirs, ebsDirs, bucket, images, dstPages>>

MgrTransfer ==
    /\ pc = "mgr" /\ NextCall <= MaxCalls
    /\ \E checkpoint_dir \in srcDirs, st \in {"ok", "fail"} :
         transfer(SOURCE, DEST, checkpoint_dir, st)
    /\ MgrUnchanged
    /\ UNCHANGED <<srcDirs, images, readable>>

\* S3Config.get_s3_uri of the configured bucket and prefix
S3Uri == "s3://bucket/prefix/"

\* an aws command: a remote command with its command line, word by word
S3Cmd(op, host, dir, st, argv) ==
    Cmd(op, host, dir, <<>>, FALSE, None, 0, FALSE, st, NextCall) @@ [argv |-> argv]

\* the download command without regard to the mode: pages always excluded
get_download_cmd_AlwaysExclude(local_dir, exclude_pages) ==
    <<"aws", "s3", "sync", S3Uri, ToString(local_dir) \o "/", "--quiet">>
    \o <<"--exclude 'pages-*.img'">>

\* S3Config.get_download_cmd
get_download_cmd(local_dir, exclude_pages) ==
    <<"aws", "s3", "sync", S3Uri, ToString(local_dir) \o "/", "--quiet">>
    \o (IF exclude_pages THEN <<"--exclude 'pages-*.img'">> ELSE <<>>)

\* the lazy_config argument of download_from_s3_with_config: None or a LazyConfig
LazyConfigArgs ==
    {NoLazyConfig} \cup {LazyConfig(m, DefaultPort, DefaultWorkers) : m \in LazyModes}

\* TransferManager.download_from_s3_with_config: aws s3 sync on the
\* destination from the bucket into dest_dir
download_from_s3_with_config(dest_host, dest_dir, lc, st) ==
    LET exclude_pages == lc # NoLazyConfig /\ lc.mode # "none"
        got == st = "ok" /\ dest_dir \in bucket
    IN /\ issued' = Append(issued, S3Cmd("s3-sync-download", dest_host, dest_dir, st,
                                         get_download_cmd(dest_dir, exclude_pages)))
       /\ dstDirs' = IF got THEN dstDirs \cup {dest_dir} ELSE dstDirs
       /\ dstPages' = IF got /\ ~exclude_pages THEN dstPages \cup {dest_dir} ELSE dstPages
       /\ lazy_config' = lc
       /\ result' = IF st = "ok"
                    THEN [success |-> TRUE, excluded_pages |-> exclude_pages]
                    ELSE [success |-> FALSE, error |-> "download failed"]

MgrS3Download ==
    /\ pc = "mgr" /\ NextCall <= MaxCalls
    /\ \E dest_dir \in Dirs, lc \in LazyConfigArgs, st \in {"ok", "fail"} :
         /\ dest_dir \in bucket
         /\ download_from_s3_with_config(DEST, dest_dir, lc, st)
    /\ UNCHANGED <<readable, flags, procs, tracker_type, pool, timerVars, samplerVars, paceVars, mirrorVars, teardown, tracker_binaries, selected_tracker, args, collect_logs_calls, scripts, exit_code, metrics_file, loop, ready_seen, cfg, workload, pc, i, checkpoint_iteration,
                   workload_pid, dirty_tracker, sigterms, ssh_clients,
                   pre_dump_iterations, phases, envOk, lazy_args>>
    /\ UNCHANGED <<srcDirs, ebsDirs, bucket, images>>

\* parameters of S3Config.get_upload_cmd
GetUploadCmdParams == {"local_dir"}

\* keywords of the call of get_upload_cmd in upload_to_s3_with_config
GetUploadCmdCallKeywords == {"clean_first"}

\* TransferManager.upload_to_s3_with_config: get_upload_cmd is called with
\* clean_first=..., a keyword it does not have; TypeError before any command
upload_to_s3_with_config ==
    /\ ~(GetUploadCmdCallKeywords \subseteq GetUploadCmdParams)
    /\ result' = [success |-> FALSE, error |-> "TypeError"]
    /\ UNCHANGED <<issued, bucket, dstDirs, dstPages>>

MgrS3Upload ==
    /\ pc = "mgr" /\ NextCall <= MaxCalls
    /\ upload_to_s3_with_config
    /\ MgrUnchanged
    /\ UNCHANGED <<srcDirs, ebsDirs, images, readable>>

NextMgr ==
    \/ MgrPreDump
    \/ MgrFinalDump
    \/ MgrRestore
    \/ MgrTransfer
    \/ MgrS3Download
    \/ MgrS3Upload

SpecMgr == InitMgr /\ [][NextMgr]_vars

(***************************************************************************)
(* The argument derivation of LazyConfig applied to every mode, port and   *)
(* number of workers.                                                      *)
(***************************************************************************)
InitLazy ==
    /\ cfg \in {c \in Configs : /\ c.strategy = "full"
                                /\ c.predump_iterations = 0
                                /\ c.method = "rsync"
                                /\ c.workload_type = "memory"
                                /\ ~c.track_dirty_pages
                                /\ ~c.target_memory
                                /\ c.ready_timeout = MaxReadyTimeout}
    /\ workload = "set"
    /\ pc = "lazy"
    /\ i = 0
    /\ checkpoint_iteration = 0
    /\ workload_pid = 0
    /\ lazy_config = NoLazyConfig
    /\ dirty_tracker = "none"
    /\ sigterms = 0
    /\ ssh_clients = {}
    /\ srcDirs = {}
    /\ dstDirs = {}
    /\ issued = <<>>
    /\ pre_dump_iterations = <<>>
    /\ phases = <<>>
    /\ envOk = TRUE
    /\ result = "none"
    /\ lazy_args = <<>>
    /\ ebsDirs = {}
    /\ bucket = {}
    /\ images = {}
    /\ loop = NoLoop
    /\ ready_seen = FALSE
    /\ dstPages = {}
    /\ metrics_file = <<>>
    /\ exit_code = <<>>
    /\ args = [collect_logs |-> FALSE, no_cleanup |-> FALSE]
    /\ collect_logs_calls = 0
    /\ scripts = {}
    /\ pool = NoClients
    /\ tracker_binaries = {}
    /\ selected_tracker = None
    /\ tracker_type = "auto"
    /\ flags = {}
    /\ procs = [h \in Hosts |-> "none"]
    /\ teardown = <<>>
    /\ readable = {}
    /\ NoSampler
    /\ NoPace
    /\ NoMirror
    /\ NoTimers

\* build the LazyConfig of the configuration and derive its three vectors
DeriveArgs ==
    /\ pc = "lazy"
    /\ \E page_server_host \in {None, SOURCE} :
         LET lc == LazyConfig(cfg.lazy_mode, cfg.page_server_port, cfg.prefetch_workers)
         IN /\ lazy_config' = lc
            /\ lazy_args' = [dump |-> get_dump_args(lc),
                             restore |-> get_restore_args(lc),
                             daemon |-> get_lazy_pages_daemon_args(lc, page_server_host),
                             page_server_host |-> page_server_host]
    /\ pc' = "lazy_done"
    /\ UNCHANGED <<readable, flags, procs, tracker_type, pool, timerVars, samplerVars, paceVars, mirrorVars, teardown, tracker_binaries, selected_tracker, args, collect_logs_calls, scripts, exit_code, metrics_file, dstPages, loop, ready_seen, images, cfg, workload, i, checkpoint_iteration, workload_pid, dirty_tracker,
                   sigterms, ssh_clients, srcDirs, dstDirs, issued, pre_dump_iterations,
                   phases, envOk, result, ebsDirs, bucket>>

NextLazy == DeriveArgs

SpecLazy == InitLazy /\ [][NextLazy]_vars

(***************************************************************************)
(* MetricsCollector (lib/timing.py): timers, custom metrics and the JSON   *)
(* document.  Times are counted in ticks of the clock's resolution; every  *)
(* call of time.time() returns the time of the call, which is not before   *)
(* the time the call before it returned.                                   *)
(***************************************************************************)
MaxClock == 3         \* the clock readings explored
TimerNames == {"X", "Y"}

\* a run() that has not been called: every variable of the orchestrator as
\* the constructors leave it
NoRun ==
    /\ cfg = [strategy |-> "full", predump_iterations |-> 0, lazy_mode |-> "none",
              page_server_port |-> DefaultPort, prefetch_workers |-> DefaultWorkers,
              method |-> "rsync", workload_type |-> "memory", track_dirty_pages |-> FALSE,
              target_memory |-> FALSE, ready_timeout |-> MaxReadyTimeout]
    /\ workload = "set"
    /\ i = 0
    /\ checkpoint_iteration = 0
    /\ workload_pid = 0
    /\ lazy_config = NoLazyConfig
    /\ dirty_tracker = "none"
    /\ sigterms = 0
    /\ ssh_clients = {}
    /\ srcDirs = {}
    /\ dstDirs = {}
    /\ issued = <<>>
    /\ pre_dump_iterations = <<>>
    /\ phases = <<>>
    /\ envOk = TRUE
    /\ result = "none"
    /\ lazy_args = <<>>
    /\ ebsDirs = {}
    /\ bucket = {}
    /\ images = {}
    /\ loop = NoLoop
    /\ ready_seen = FALSE
    /\ dstPages = {}
    /\ metrics_file = <<>>
    /\ exit_code = <<>>
    /\ args = [collect_logs |-> FALSE, no_cleanup |-> FALSE]
    /\ collect_logs_calls = 0
    /\ scripts = {}
    /\ pool = NoClients
    /\ tracker_binaries = {}
    /\ selected_tracker = None
    /\ tracker_type = "auto"
    /\ flags = {}
    /\ procs = [h \in Hosts |-> "none"]
    /\ teardown = <<>>
    /\ readable = {}

InitTimer ==
    /\ NoRun
    /\ pc = "timer"
    /\ NoTimers
    /\ NoSampler
    /\ NoPace
    /\ NoMirror

\* dataclass TimingMetric (metadata: metadata or {}, the empty dictionary here)
TimingMetric(name, duration, start_time, end_time) ==
    [name |-> name, duration |-> duration, start_time |-> start_time, end_time |-> end_time]

\* what a call of time.time() can return
Now == clock..MaxClock

\* what neither a timer nor the dirty-page sampler changes
RunUnchanged ==
    UNCHANGED <<readable, flags, procs, tracker_type, pool, paceVars, mirrorVars, teardown, tracker_binaries, selected_tracker, args, collect_logs_calls, scripts, exit_code, loop, ready_seen, cfg, workload, pc, i, checkpoint_iteration, workload_pid, lazy_config,
                dirty_tracker, sigterms, ssh_clients, srcDirs, dstDirs, issued, pre_dump_iterations, phases,
                envOk, result, lazy_args, ebsDirs, bucket, images, dstPages>>

TimerUnchanged ==
    /\ RunUnchanged
    /\ UNCHANGED samplerVars

\* MetricsCollector.start_timer
start_timer(name) ==
    \E t \in Now :
      /\ clock' = t
      /\ active_timers' = (name :> t) @@ active_timers

\* MetricsCollector.stop_timer on a timer that was started: the timer is
\* popped and the TimingMetric returned; nothing is stored in the metrics
stop_timer(name, started, end) ==
    TimingMetric(name, end - started, started, end)

\* MetricsCollector.add_custom_metric: start_time and end_time come from two
\* calls of time.time(), t1 and t2
add_custom_metric(name, duration, t1, t2) ==
    (name :> TimingMetric(name, duration, t1 - duration, t2)) @@ custom_metrics

\* Timer.__enter__
TimerEnter ==
    /\ pc = "timer"
    /\ \E name \in TimerNames : start_timer(name)
    /\ UNCHANGED <<custom_metrics, metric, metrics_file>>
    /\ TimerUnchanged

\* a caller stops a timer it started and keeps the TimingMetric (KeyError,
\* and nothing changed, for a timer that is not running)
StopTimer ==
    /\ pc = "timer"
    /\ \E name \in DOMAIN active_timers, end \in Now :
         /\ metric' = <<stop_timer(name, active_timers[name], end)>>
         /\ active_timers' = [n \in DOMAIN active_timers \ {name} |-> active_timers[n]]
         /\ clock' = end
    /\ UNCHANGED <<custom_metrics, metrics_file>>
    /\ TimerUnchanged

\* Timer.__exit__: stop_timer, then add_custom_metric with the duration
TimerExit ==
    /\ pc = "timer"
    /\ \E name \in DOMAIN active_timers, end \in Now :
         \E t1 \in end..MaxClock : \E t2 \in t1..MaxClock :
           /\ metric' = <<stop_timer(name, active_timers[name], end)>>
           /\ active_timers' = [n \in DOMAIN active_timers \ {name} |-> active_timers[n]]
           /\ custom_metrics' = add_custom_metric(name, metric'[1].duration, t1, t2)
           /\ clock' = t2
    /\ UNCHANGED metrics_file
    /\ TimerUnchanged

\* json.dumps of a dictionary with these keys: the members in order, each a
\* key and its value
json_dumps(d, keys) == [n \in 1..Len(keys) |-> <<keys[n], d[keys[n]]>>]

\* json.loads of an object: the dictionary of its members
json_loads(j) ==
    [k \in {j[n][1] : n \in 1..Len(j)} |-> j[CHOOSE n \in 1..Len(j) : j[n][1] = k][2]]

\* the fields of a TimingMetric, in the order of the dataclass
TimingMetricFields == <<"name", "duration", "start_time", "end_time">>

\* ExperimentMetrics.to_json, the custom_metrics member: an object with one
\* member per metric, in the order of insertion (any order here)
to_json ==
    [n \in DOMAIN custom_metrics |-> json_dumps(custom_metrics[n], TimingMetricFields)]

\* MetricsCollector.save_to_file: finalize, then the JSON text is written
save_to_file ==
    /\ pc = "timer"
    /\ \E t \in Now : clock' = t
    /\ metrics_file' = <<to_json>>
    /\ UNCHANGED <<active_timers, custom_metrics, metric>>
    /\ TimerUnchanged

NextTimer ==
    \/ TimerEnter
    \/ StopTimer
    \/ TimerExit
    \/ save_to_file

SpecTimer == InitTimer /\ [][NextTimer]_vars

(***************************************************************************)
(* DirtyPageTracker: start(), stop() and the sampling thread (_track_loop) *)
(* over a process tree that grows and shrinks while it is sampled.         *)
(***************************************************************************)
InitSampler ==
    /\ NoRun
    /\ pc = "sampler"
    /\ NoTimers
    /\ alive \in {{}, {root_pid}}
    /\ track_children \in BOOLEAN
    /\ tracking_thread = <<>>
    /\ stop_event = FALSE
    /\ samples = <<>>
    /\ process_trackers = {}
    /\ known_pids = {}
    /\ dead_pids = {}
    /\ fresh = {}
    /\ threads = [t \in Tids |-> NoThread]
    /\ lock = 0
    /\ caller = "idle"
    /\ last_call = "none"
    /\ NoPace
    /\ NoMirror

SamplerUnchanged ==
    /\ RunUnchanged
    /\ UNCHANGED <<timerVars, metrics_file>>

\* the threads that have been started and have not returned from _track_loop
Running == {t \in Tids : threads[t].at \in {"init", "wait", "scan"}}

\* a process of the tree forks a child / a process exits
ProcessFork(p) ==
    /\ pc = "sampler"
    /\ root_pid \in alive /\ p \notin alive /\ p # root_pid
    /\ alive' = alive \cup {p}
    /\ UNCHANGED <<track_children, tracking_thread, stop_event, samples, process_trackers,
                   known_pids, dead_pids, fresh, threads, lock, caller, last_call>>
    /\ SamplerUnchanged

ProcessExit(p) ==
    /\ pc = "sampler"
    /\ p \in alive
    /\ alive' = alive \ {p}
    /\ UNCHANGED <<track_children, tracking_thread, stop_event, samples, process_trackers,
                   known_pids, dead_pids, fresh, threads, lock, caller, last_call>>
    /\ SamplerUnchanged

\* _discover_all_descendants(root_pid): the children files, transitively; an
\* orphan is no longer a descendant
discover_all_descendants(procs_alive) ==
    IF root_pid \in procs_alive THEN procs_alive \ {root_pid} ELSE {}

\* _add_process_tracker applied to the PIDs ps, of which those in opened can
\* be opened: what it leaves in _process_trackers, _known_pids, _dead_pids,
\* and whose soft-dirty bits are cleared
add_process_tracker(ps, opened) ==
    LET add == {p \in ps : p \notin process_trackers /\ p \notin dead_pids} IN
      [trackers |-> process_trackers \cup (add \cap opened),
       known    |-> known_pids \cup (add \cap opened),
       dead     |-> dead_pids \cup (add \ opened),
       cleared  |-> fresh \cup (add \cap opened)]

\* DirtyPageTracker.start on a tracker whose thread is set: raises
StartRaises ==
    /\ pc = "sampler" /\ caller = "idle"
    /\ tracking_thread # <<>>
    /\ last_call' = "start raised"
    /\ UNCHANGED <<alive, track_children, tracking_thread, stop_event, samples, process_trackers,
                   known_pids, dead_pids, fresh, threads, lock, caller>>
    /\ SamplerUnchanged

\* DirtyPageTracker.start: a new session and a new thread
Start ==
    /\ pc = "sampler" /\ caller = "idle"
    /\ tracking_thread = <<>>
    /\ \E t \in Tids :
         /\ threads[t].at = "none"
         /\ \A u \in Tids : u < t => threads[u].at # "none"
         /\ tracking_thread' = <<t>>
         /\ threads' = [threads EXCEPT ![t] = [at |-> "init", tracked_pids |-> {}]]
    /\ stop_event' = FALSE
    /\ samples' = <<>>
    /\ known_pids' = {} /\ dead_pids' = {} /\ process_trackers' = {} /\ fresh' = {}
    /\ last_call' = "started"
    /\ UNCHANGED <<alive, track_children, lock, caller>>
    /\ SamplerUnchanged

\* DirtyPageTracker.stop without a thread: returns at once
StopNoThread ==
    /\ pc = "sampler" /\ caller = "idle"
    /\ tracking_thread = <<>>
    /\ last_call' = "nothing to stop"
    /\ UNCHANGED <<alive, track_children, tracking_thread, stop_event, samples, process_trackers,
                   known_pids, dead_pids, fresh, threads, lock, caller>>
    /\ SamplerUnchanged

\* DirtyPageTracker.stop: sets the event and begins to join the thread
StopSet ==
    /\ pc = "sampler" /\ caller = "idle"
    /\ tracking_thread # <<>>
    /\ stop_event' = TRUE
    /\ caller' = "joining"
    /\ UNCHANGED <<alive, track_children, tracking_thread, samples, process_trackers,
                   known_pids, dead_pids, fresh, threads, lock, last_call>>
    /\ SamplerUnchanged

\* join(timeout=5.0) returns: the thread has ended, or five seconds have
\* passed in a scan that is still reading
JoinReturns(t) == threads[t].at \in {"exited", "scan"}

\* DirtyPageTracker.stop, after the join: forgets the thread
StopJoin ==
    /\ pc = "sampler" /\ caller = "joining"
    /\ JoinReturns(tracking_thread[1])
    /\ tracking_thread' = <<>>
    /\ caller' = "idle"
    /\ last_call' = "stopped"
    /\ UNCHANGED <<alive, track_children, stop_event, samples, process_trackers,
                   known_pids, dead_pids, fresh, threads, lock>>
    /\ SamplerUnchanged

\* _track_loop, up to the loop: opens the root process
TrackLoopBegin(t) ==
    /\ pc = "sampler"
    /\ threads[t].at = "init"
    /\ LET added == add_process_tracker({root_pid}, alive) IN
         /\ process_trackers' = added.trackers
         /\ known_pids' = added.known
         /\ dead_pids' = added.dead
         /\ fresh' = added.cleared
         /\ threads' = [threads EXCEPT ![t].at =
                           IF root_pid \in added.trackers /\ root_pid \notin process_trackers
                           THEN "wait" ELSE "exited"]
    /\ UNCHANGED <<alive, track_children, tracking_thread, stop_event, samples, lock,
                   caller, last_call>>
    /\ SamplerUnchanged

\* _track_loop: the wait is over and the event is not set; under the lock the
\* thread discovers the descendants (of which those in gone exit before they
\* can be opened), removes the dead and notes tracked_pids
ScanBegin(t) ==
    /\ pc = "sampler"
    /\ threads[t].at = "wait" /\ ~stop_event /\ lock = 0
    /\ Len(samples) < MaxSamples
    /\ LET new_pids == IF track_children
                       THEN (discover_all_descendants(alive) \ known_pids) \ dead_pids
                       ELSE {}
       IN \E gone \in SUBSET new_pids :
            LET added == add_process_tracker(new_pids, alive \ gone)
                exited == added.trackers \ (alive \ gone)
            IN /\ alive' = alive \ gone
               /\ process_trackers' = added.trackers \ exited
               /\ known_pids' = added.known
               /\ dead_pids' = added.dead \cup exited
               /\ fresh' = added.cleared \ exited
               /\ threads' = [threads EXCEPT ![t] =
                                 [at |-> "scan", tracked_pids |-> added.trackers \ exited]]
    /\ lock' = t
    /\ UNCHANGED <<track_children, tracking_thread, stop_event, samples, caller, last_call>>
    /\ SamplerUnchanged

\* DirtySample: the PIDs noted, the PIDs whose pagemap was read, and those of
\* them whose soft-dirty bits had not been cleared since they were opened
DirtySample(tracked_pids, pids_read) ==
    [pids_tracked |-> tracked_pids, pids_read |-> pids_read, uncleared |-> pids_read \ fresh]

\* _track_loop: reads and clears every tracker of self._process_trackers,
\* appends the sample to self.samples, releases the lock
ScanEnd(t) ==
    /\ pc = "sampler"
    /\ threads[t].at = "scan"
    /\ samples' = Append(samples, DirtySample(threads[t].tracked_pids, process_trackers))
    /\ fresh' = fresh \cup process_trackers
    /\ lock' = 0
    /\ threads' = [threads EXCEPT ![t].at = "wait"]
    /\ UNCHANGED <<alive, track_children, tracking_thread, stop_event, process_trackers,
                   known_pids, dead_pids, caller, last_call>>
    /\ SamplerUnchanged

\* _track_loop: the event is set; closes and clears the trackers, returns
TrackLoopEnd(t) ==
    /\ pc = "sampler"
    /\ threads[t].at = "wait" /\ stop_event
    /\ process_trackers' = {}
    /\ fresh' = {}
    /\ threads' = [threads EXCEPT ![t].at = "exited"]
    /\ UNCHANGED <<alive, track_children, tracking_thread, stop_event, samples,
                   known_pids, dead_pids, lock, caller, last_call>>
    /\ SamplerUnchanged

NextSampler ==
    \/ \E p \in Pids : ProcessFork(p)
    \/ \E p \in Pids : ProcessExit(p)
    \/ StartRaises
    \/ Start
    \/ StopNoThread
    \/ StopSet
    \/ StopJoin
    \/ \E t \in Tids : TrackLoopBegin(t)
    \/ \E t \in Tids : ScanBegin(t)
    \/ \E t \in Tids : ScanEnd(t)
    \/ \E t \in Tids : TrackLoopEnd(t)

SpecSampler == InitSampler /\ [][NextSampler]_vars

(***************************************************************************)
(* The pacing of the loop of _run_predump_strategy: every reading of       *)
(* time.time() is a whole number of seconds, not before the reading that   *)
(* came before it; time.sleep(s) returns s seconds after the call or later.*)
(***************************************************************************)
MaxInterval == 2      \* largest predump_interval explored
\* the last second that is explored
PaceHorizon == MaxIter * (MaxInterval + 1) + 1

InitPace ==
    /\ NoRun
    /\ pc = "predump_strategy"
    /\ NoTimers
    /\ NoSampler
    /\ num_iterations \in 1..MaxIter
    /\ interval \in 0..MaxInterval
    /\ pace = <<>>
    /\ NoMirror

PaceUnchanged ==
    UNCHANGED <<mirrorVars, readable, flags, procs, tracker_type, pool, mirrorVars, teardown, tracker_binaries, selected_tracker, args, collect_logs_calls, scripts, exit_code, loop,
                ready_seen, cfg, workload, checkpoint_iteration, workload_pid, lazy_config, dirty_tracker, sigterms, ssh_clients, srcDirs, dstDirs, issued, pre_dump_iterations, phases,
                envOk, result, lazy_args, ebsDirs, bucket, images, dstPages, active_timers, custom_metrics, metric, samplerVars, metrics_file>>

\* the argument of time.sleep at the end of iteration n of num, 0 for no call
sleep_time_OneEarly(elapsed, floor, n, num) ==
    IF elapsed < floor /\ n < num - 1 THEN floor - elapsed ELSE 0

sleep_time(elapsed, floor, n, num) ==
    IF elapsed < floor /\ n < num THEN floor - elapsed ELSE 0

\* _run_predump_strategy, up to the loop: for i in range(1, num_iterations + 1)
EnterPacedLoop ==
    /\ pc = "predump_strategy"
    /\ i' = 1
    /\ pc' = "pace"
    /\ UNCHANGED <<clock, num_iterations, interval, pace>>
    /\ PaceUnchanged

\* one iteration of the loop: iteration_start is read at t0, the pre-dump is
\* made, timed and recorded, elapsed is read at t1, and the sleep, if there is
\* one, returns at t2
PacedPreDump ==
    /\ pc = "pace" /\ i <= num_iterations
    /\ \E t0 \in clock..PaceHorizon : \E t1 \in t0..PaceHorizon :
         LET elapsed == t1 - t0
             secs == sleep_time(elapsed, interval, i, num_iterations)
         IN /\ t1 + secs <= PaceHorizon
            /\ IF secs > 0
               THEN \E t2 \in (t1 + secs)..PaceHorizon : clock' = t2
               ELSE clock' = t1
            /\ pace' = Append(pace, [start |-> t0, ok |-> TRUE, elapsed |-> elapsed, slept |-> secs])
    /\ i' = i + 1
    /\ pc' = IF i < num_iterations THEN "pace" ELSE "pace_final_dump"
    /\ UNCHANGED <<num_iterations, interval>>
    /\ PaceUnchanged

\* an iteration whose pre-dump fails: RuntimeError, no sleep
PacedPreDumpFails ==
    /\ pc = "pace" /\ i <= num_iterations
    /\ \E t0 \in clock..PaceHorizon : \E t1 \in t0..PaceHorizon :
         /\ clock' = t1
         /\ pace' = Append(pace, [start |-> t0, ok |-> FALSE, elapsed |-> t1 - t0, slept |-> 0])
    /\ pc' = "pace_raised"
    /\ UNCHANGED <<i, num_iterations, interval>>
    /\ PaceUnchanged

NextPace ==
    \/ EnterPacedLoop
    \/ PacedPreDump
    \/ PacedPreDumpFails

SpecPace == InitPace /\ [][NextPace]_vars


(***************************************************************************)
(* The workload and its flag file.  The manager operations are called in   *)
(* the order of the steps of run() (prepare, start, dump, transfer,        *)
(* restore) with the parameters they have; the workload process on a host  *)
(* runs its loop in between.                                               *)
(***************************************************************************)
InitWorkload ==
    /\ cfg \in {c \in Configs : /\ c.strategy = "full"
                                /\ c.predump_iterations = 0
                                /\ c.lazy_mode = "none"
                                /\ c.page_server_port = DefaultPort
                                /\ c.prefetch_workers = DefaultWorkers
                                /\ ~c.track_dirty_pages
                                /\ ~c.target_memory
                                /\ c.ready_timeout = MaxReadyTimeout}
    /\ workload = "set"
    /\ pc = "wl_prepare"
    /\ i = 0
    /\ checkpoint_iteration = 0
    /\ workload_pid = 0
    /\ lazy_config = NoLazyConfig
    /\ dirty_tracker = "none"
    /\ sigterms = 0
    /\ ssh_clients = {}
    /\ srcDirs = {}
    /\ dstDirs = {}
    /\ issued = <<>>
    /\ pre_dump_iterations = <<>>
    /\ phases = <<>>
    /\ envOk = TRUE
    /\ result = "none"
    /\ lazy_args = <<>>
    /\ ebsDirs = {}
    /\ bucket = {}
    /\ images = {}
    /\ loop = NoLoop
    /\ ready_seen = FALSE
    /\ dstPages = {}
    /\ metrics_file = <<>>
    /\ exit_code = <<>>
    /\ args = [collect_logs |-> FALSE, no_cleanup |-> FALSE]
    /\ collect_logs_calls = 0
    /\ scripts = {}
    /\ pool = NoClients
    /\ tracker_binaries = {}
    /\ selected_tracker = None
    /\ tracker_type = "auto"
    /\ flags \in {WorkingDirHosts(h) : h \in Hosts} \cup {{}}   \* what an earlier run left behind
    /\ procs = [h \in Hosts |-> "none"]
    /\ teardown = <<>>
    /\ readable = {}
    /\ NoSampler
    /\ NoPace
    /\ NoMirror
    /\ NoTimers

WlUnchanged ==
    UNCHANGED <<tracker_type, pool, timerVars, samplerVars, paceVars, mirrorVars, teardown, tracker_binaries, selected_tracker, args, collect_logs_calls, scripts, exit_code, metrics_file, loop, ready_seen, cfg, workload, i, checkpoint_iteration, lazy_config,
                dirty_tracker, sigterms, ssh_clients, pre_dump_iterations, phases, lazy_args>>

\* cleanup_and_prepare on the source, then on the destination: rm -rf
\* working_dir, mkdir -p working_dir
CleanupAndPrepare ==
    /\ pc = "wl_prepare"
    /\ srcDirs' = {} /\ dstDirs' = {} /\ dstPages' = {}
    /\ flags' = {} /\ readable' = {}
    /\ pc' = "wl_start"
    /\ UNCHANGED <<procs, workload_pid, issued, images, result, envOk, ebsDirs, bucket>>
    /\ WlUnchanged

\* CheckpointManager.start_workload: touch working_dir/checkpoint_flag (the
\* exit status is not looked at), the workload in the background, its PID
start_workload ==
    /\ pc = "wl_start"
    /\ \E touched \in BOOLEAN :
         /\ flags' = IF touched THEN flags \cup WorkingDirHosts(SOURCE) ELSE flags
         /\ envOk' = (envOk /\ touched)
    /\ procs' = [procs EXCEPT ![SOURCE] = "running"]
    /\ workload_pid' = 1
    /\ pc' = "wl_running"
    /\ UNCHANGED <<srcDirs, dstDirs, dstPages, issued, images, result, ebsDirs, bucket, readable>>
    /\ WlUnchanged

\* run_memory_workload, one iteration of the loop of a running workload:
\* exit when checkpoint_flag is not in the working directory, go on otherwise
run_memory_workload ==
    /\ \E h \in Hosts :
         /\ procs[h] = "running"
         /\ procs' = IF h \in flags THEN procs ELSE [procs EXCEPT ![h] = "exited"]
    /\ UNCHANGED <<flags, pc, workload_pid, srcDirs, dstDirs, dstPages, issued, images, result,
                   envOk, ebsDirs, bucket, readable>>
    /\ WlUnchanged

\* the final dump of the workload on the source; a dump that succeeds ends
\* the dumped process, a process that has exited cannot be dumped
WlFinalDump ==
    /\ pc = "wl_running"
    /\ \E st \in {"ok", "fail"} :
         /\ procs[SOURCE] # "running" => st = "fail"
         /\ final_dump(SOURCE, 0, FALSE, MgrDefaultPort, cfg.workload_type, st)
         /\ procs' = IF st = "ok" THEN [procs EXCEPT ![SOURCE] = "dumped"] ELSE procs
         /\ envOk' = (envOk /\ st = "ok")
         /\ pc' = IF st = "ok" THEN "wl_dumped" ELSE "wl_failed"
    /\ UNCHANGED <<flags, workload_pid, dstPages, ebsDirs, bucket>>
    /\ WlUnchanged

\* the transfer of the final checkpoint directory
WlTransfer ==
    /\ pc = "wl_dumped"
    /\ \E st \in {"ok", "fail"} :
         /\ transfer(SOURCE, DEST, 1, st)
         /\ envOk' = (envOk /\ st = "ok")
         /\ pc' = IF st = "ok" THEN "wl_transferred" ELSE "wl_failed"
    /\ UNCHANGED <<flags, procs, workload_pid, srcDirs, images, readable>>
    /\ WlUnchanged

\* the restore on the destination; a restore that succeeds leaves the
\* workload running there, in the same loop, with working_dir as its directory
WlRestore ==
    /\ pc = "wl_transferred"
    /\ \E st \in {"ok", "fail"} :
         /\ restore(DEST, 1, FALSE, None, MgrDefaultPort, cfg.workload_type, st)
         /\ procs' = IF st = "ok" THEN [procs EXCEPT ![DEST] = "running"] ELSE procs
         /\ envOk' = (envOk /\ st = "ok")
         /\ pc' = IF st = "ok" THEN "wl_restored" ELSE "wl_failed"
    /\ UNCHANGED <<flags, workload_pid, srcDirs, dstDirs, dstPages, images, ebsDirs, bucket>>
    /\ WlUnchanged

NextWorkload ==
    \/ CleanupAndPrepare
    \/ start_workload
    \/ run_memory_workload
    \/ WlFinalDump
    \/ WlTransfer
    \/ WlRestore

SpecWorkload == InitWorkload /\ [][NextWorkload]_vars


(***************************************************************************)
(* The SSH layer: SSHClient and the dictionary CheckpointManager keeps of  *)
(* them, under requests for any host and user and any transport outcome.   *)
(* The client field of an SSHClient is                                     *)
(*   "None"        no paramiko client yet (after __init__ or close)        *)
(*   "unconnected" a paramiko client whose connect raised                  *)
(*   "connected"   a paramiko client with a live transport                 *)
(*   "dead"        a paramiko client whose transport has failed            *)
(***************************************************************************)
Users == {"ubuntu", "ec2-user"}

InitSsh ==
    /\ cfg \in {c \in Configs : /\ c.strategy = "full"
                                /\ c.predump_iterations = 0
                                /\ c.lazy_mode = "none"
                                /\ c.page_server_port = DefaultPort
                                /\ c.prefetch_workers = DefaultWorkers
                                /\ c.method = "rsync"
                                /\ c.workload_type = "memory"
                                /\ ~c.track_dirty_pages
                                /\ ~c.target_memory
                                /\ c.ready_timeout = MaxReadyTimeout}
    /\ workload = "set"
    /\ pc = "ssh"
    /\ i = 0
    /\ checkpoint_iteration = 0
    /\ workload_pid = 0
    /\ lazy_config = NoLazyConfig
    /\ dirty_tracker = "none"
    /\ sigterms = 0
    /\ ssh_clients = {}
    /\ srcDirs = {}
    /\ dstDirs = {}
    /\ issued = <<>>
    /\ pre_dump_iterations = <<>>
    /\ phases = <<>>
    /\ envOk = TRUE
    /\ result = [op |-> "none"]
    /\ lazy_args = <<>>
    /\ ebsDirs = {}
    /\ bucket = {}
    /\ images = {}
    /\ loop = NoLoop
    /\ ready_seen = FALSE
    /\ dstPages = {}
    /\ metrics_file = <<>>
    /\ exit_code = <<>>
    /\ args = [collect_logs |-> FALSE, no_cleanup |-> FALSE]
    /\ collect_logs_calls = 0
    /\ scripts = {}
    /\ pool = NoClients
    /\ tracker_binaries = {}
    /\ selected_tracker = None
    /\ tracker_type = "auto"
    /\ flags = {}
    /\ procs = [h \in Hosts |-> "none"]
    /\ teardown = <<>>
    /\ readable = {}
    /\ NoSampler
    /\ NoPace
    /\ NoMirror
    /\ NoTimers

SshUnchanged ==
    UNCHANGED <<readable, flags, procs, tracker_type, timerVars, samplerVars, paceVars, mirrorVars, teardown, tracker_binaries, selected_tracker, args, collect_logs_calls, scripts, exit_code, metrics_file, dstPages, loop, ready_seen, images, cfg, workload, pc, i, checkpoint_iteration, workload_pid, lazy_config,
                dirty_tracker, sigterms, srcDirs, dstDirs, issued, pre_dump_iterations,
                phases, envOk, lazy_args, ebsDirs, bucket>>

\* CheckpointManager.get_ssh_client: the dictionary after the call; a host
\* not in it gets SSHClient(host, username), a host in it keeps its client
get_ssh_client(host, username) ==
    IF host \in DOMAIN pool THEN pool
    ELSE (host :> [username |-> username, client |-> "None"]) @@ pool

\* SSHClient.execute on an SSHClient in state client: connect first when
\* the client is None (connect creates the paramiko client, then raises or
\* not), then exec_command, which raises on a client that is unconnected
\* or dead, and on a live one when the transport fails; every exception is
\* logged and raised again, and the paramiko client stays where it is
execute(client, connects, runs) ==
    IF client = "None"
    THEN IF ~connects THEN [client |-> "unconnected", raised |-> "connect", opened |-> FALSE]
         ELSE IF runs THEN [client |-> "connected", raised |-> "none", opened |-> TRUE]
         ELSE [client |-> "dead", raised |-> "command", opened |-> TRUE]
    ELSE IF client = "connected"
    THEN IF runs THEN [client |-> "connected", raised |-> "none", opened |-> FALSE]
         ELSE [client |-> "dead", raised |-> "command", opened |-> FALSE]
    ELSE [client |-> client, raised |-> "command", opened |-> FALSE]

\* a caller asks for the client of (host, username) without using it
GetSshClient ==
    /\ pc = "ssh"
    /\ \E host \in Hosts, username \in Users :
         /\ pool' = get_ssh_client(host, username)
         /\ result' = [op |-> "get_ssh_client", host |-> host, requested |-> username,
                       username |-> pool'[host].username, client |-> pool'[host].client,
                       created |-> host \notin DOMAIN pool]
    /\ ssh_clients' = DOMAIN pool'
    /\ SshUnchanged

\* an operation of CheckpointManager on a host: get_ssh_client, then execute
Execute ==
    /\ pc = "ssh"
    /\ \E host \in Hosts, username \in Users, connects \in BOOLEAN, runs \in BOOLEAN :
         LET got == get_ssh_client(host, username)
             e   == execute(got[host].client, connects, runs)
         IN /\ pool' = [got EXCEPT ![host].client = e.client]
            /\ result' = [op |-> "execute", host |-> host, requested |-> username,
                          username |-> got[host].username, client |-> got[host].client,
                          raised |-> e.raised, opened |-> e.opened]
    /\ ssh_clients' = DOMAIN pool'
    /\ SshUnchanged

\* CheckpointManager.close_all_connections: close every client, clear the dictionary
CloseAllConnections ==
    /\ pc = "ssh"
    /\ pool' = NoClients
    /\ ssh_clients' = {}
    /\ result' = [op |-> "close_all_connections"]
    /\ SshUnchanged

NextSsh == GetSshClient \/ Execute \/ CloseAllConnections

SpecSsh == InitSsh /\ [][NextSsh]_vars


(***************************************************************************)
(* RemoteDirtyTracker: start and stop of the tracker on the source, for    *)
(* every set of backends present there and every requested tracker type.   *)
(***************************************************************************)
\* the backends in the order _select_tracker tries them
Backends == <<"c", "go", "python">>

TrackerTypes == {"auto", "c", "go", "python"}

\* RemoteDirtyTracker._check_tracker_exists: test -x on the host prints "exists"
check_tracker_exists(t) == t \in tracker_binaries

\* the backend found last in the order of preference is taken
select_tracker_LastFound(type) ==
    LET found == {n \in 1..Len(Backends) : check_tracker_exists(Backends[n])}
    IN IF type # "auto" /\ check_tracker_exists(type) THEN type
       ELSE IF found = {} THEN None
       ELSE Backends[CHOOSE n \in found : \A m \in found : m <= n]

\* RemoteDirtyTracker._select_tracker: the requested type when it exists,
\* otherwise the first of c, go, python that exists, otherwise None
select_tracker(type) ==
    LET found == {n \in 1..Len(Backends) : check_tracker_exists(Backends[n])}
    IN IF type # "auto" /\ check_tracker_exists(type) THEN type
       ELSE IF found = {} THEN None
       ELSE Backends[CHOOSE n \in found : \A m \in found : n <= m]

InitTracker ==
    /\ cfg \in {c \in Configs : /\ c.strategy = "full"
                                /\ c.predump_iterations = 0
                                /\ c.lazy_mode = "none"
                                /\ c.page_server_port = DefaultPort
                                /\ c.prefetch_workers = DefaultWorkers
                                /\ c.method = "rsync"
                                /\ c.track_dirty_pages
                                /\ ~c.target_memory
                                /\ c.ready_timeout = MaxReadyTimeout}
    /\ workload = "set"
    /\ pc = "tracker"
    /\ i = 0
    /\ checkpoint_iteration = 0
    /\ workload_pid = 1
    /\ lazy_config = NoLazyConfig
    /\ dirty_tracker = "none"
    /\ sigterms = 0
    /\ ssh_clients = {}
    /\ srcDirs = {}
    /\ dstDirs = {}
    /\ issued = <<>>
    /\ pre_dump_iterations = <<>>
    /\ phases = <<>>
    /\ envOk = TRUE
    /\ result = "none"
    /\ lazy_args = <<>>
    /\ ebsDirs = {}
    /\ bucket = {}
    /\ images = {}
    /\ loop = NoLoop
    /\ ready_seen = FALSE
    /\ dstPages = {}
    /\ metrics_file = <<>>
    /\ exit_code = <<>>
    /\ args = [collect_logs |-> FALSE, no_cleanup |-> FALSE]
    /\ collect_logs_calls = 0
    /\ scripts = {}
    /\ pool = NoClients
    /\ tracker_binaries \in SUBSET {Backends[n] : n \in 1..Len(Backends)}
    /\ selected_tracker = None
    /\ tracker_type \in TrackerTypes
    /\ flags = {}
    /\ procs = [h \in Hosts |-> "none"]
    /\ teardown = <<>>
    /\ readable = {}
    /\ NoSampler
    /\ NoPace
    /\ NoMirror
    /\ NoTimers


TrackerUnchanged ==
    UNCHANGED <<readable, flags, procs, tracker_type, pool, timerVars, samplerVars, paceVars, mirrorVars, teardown, tracker_binaries, args, collect_logs_calls, scripts, exit_code, metrics_file, dstPages, loop, ready_seen, images, cfg, workload, i, checkpoint_iteration, workload_pid, lazy_config,
                ssh_clients, srcDirs, dstDirs, issued, pre_dump_iterations, phases,
                lazy_args, ebsDirs, bucket>>

\* RemoteDirtyTracker.start: select the backend; without one return False;
\* otherwise launch it over ssh and return whether a tracker PID came back
StartTracker ==
    /\ pc = "tracker"
    /\ selected_tracker' = select_tracker(tracker_type)
    /\ \E launched \in BOOLEAN :
         LET started == selected_tracker' # None /\ launched
         IN /\ dirty_tracker' = IF started THEN "started" ELSE "none"
            /\ result' = [success |-> started]
            /\ envOk' = started
            /\ pc' = IF started THEN "tracker_started" ELSE "tracker_failed"
    /\ UNCHANGED sigterms
    /\ TrackerUnchanged

\* RemoteDirtyTracker.stop: SIGTERM to the tracker PID if there is one
StopTracker ==
    /\ pc \in {"tracker_started", "tracker_failed"}
    /\ sigterms' = IF dirty_tracker = "started" THEN sigterms + 1 ELSE sigterms
    /\ dirty_tracker' = "none"
    /\ result' = [success |-> TRUE]
    /\ pc' = "tracker_stopped"
    /\ UNCHANGED <<selected_tracker, envOk>>
    /\ TrackerUnchanged

NextTracker == StartTracker \/ StopTracker

SpecTracker == InitTracker /\ [][NextTracker]_vars


(***************************************************************************)
(* CRIUExperiment._restore applied to every lazy mode and transfer method, *)
(* with the attribute lazy_config set by the dump phase or not.            *)
(***************************************************************************)
InitRestore ==
    /\ cfg \in {c \in Configs : /\ c.strategy = "full"
                                /\ c.predump_iterations = 0
                                /\ c.page_server_port = DefaultPort
                                /\ c.prefetch_workers = DefaultWorkers
                                /\ ~c.track_dirty_pages
                                /\ ~c.target_memory
                                /\ c.ready_timeout = MaxReadyTimeout}
    /\ workload = "set"
    /\ pc = "restore"
    /\ i = 0
    /\ checkpoint_iteration \in Dirs
    /\ workload_pid = 1
    /\ lazy_config \in {NoLazyConfig, LazyConfig(cfg.lazy_mode, cfg.page_server_port, cfg.prefetch_workers)}
    /\ dirty_tracker = "none"
    /\ sigterms = 0
    /\ ssh_clients = {}
    /\ srcDirs = {}
    /\ dstDirs \in {{}, {checkpoint_iteration}}
    /\ issued = <<>>
    /\ pre_dump_iterations = <<>>
    /\ phases = <<>>
    /\ envOk = TRUE
    /\ result = "none"
    /\ lazy_args = <<>>
    /\ ebsDirs = {}
    /\ bucket = {}
    /\ images = {}
    /\ loop = NoLoop
    /\ ready_seen = FALSE
    /\ dstPages = dstDirs
    /\ metrics_file = <<>>
    /\ exit_code = <<>>
    /\ args = [collect_logs |-> FALSE, no_cleanup |-> FALSE]
    /\ collect_logs_calls = 0
    /\ scripts = {}
    /\ pool = NoClients
    /\ tracker_binaries = {}
    /\ selected_tracker = None
    /\ tracker_type = "auto"
    /\ flags = {}
    /\ procs = [h \in Hosts |-> "none"]
    /\ teardown = <<>>
    /\ readable = {}
    /\ NoSampler
    /\ NoPace
    /\ NoMirror
    /\ NoTimers

\* keyword parameters of CheckpointManager.restore
RestoreParams ==
    {"host", "checkpoint_dir", "lazy_pages", "page_server_host", "page_server_port",
     "username", "pid_file", "workload_type"}

\* keywords of the call of restore in _restore
RestoreCallKeywords == {"lazy_config", "page_server_host", "username", "workload_type"}

\* the methods of CheckpointManager that restore a checkpoint
RestoreMethods == {"restore"}

\* the checks of CheckpointManager that _restore calls once the restore has
\* returned success (verify_restore and verify_workload_health have no caller)
RestoreVerifications == {"verify_restored_process"}

\* the call _restore makes, by the branch it takes: restore_with_s3 for a
\* mode that requires S3 with transfer method s3, restore(..., lazy_config=...)
\* otherwise; what the call raises before the body of the callee runs
ExperimentRestoreCall(lc) ==
    IF requires_s3(lc) /\ cfg.method = "s3"
    THEN [raised |-> IF "restore_with_s3" \in RestoreMethods THEN "none" ELSE "AttributeError"]
    ELSE [raised |-> IF RestoreCallKeywords \subseteq RestoreParams THEN "none" ELSE "TypeError"]

\* CRIUExperiment._restore: getattr(self, 'lazy_config', NONE), the timer,
\* the call; when the call returns success, verify_restored_process and
\* record_restore with process_running, and a warning when it is not running
ExperimentRestore ==
    /\ pc = "restore"
    /\ LET lc == IF lazy_config = NoLazyConfig
                 THEN LazyConfig("none", DefaultPort, DefaultWorkers) ELSE lazy_config
           call == ExperimentRestoreCall(lc)
       IN IF call.raised # "none"
          THEN /\ result' = [op |-> "_restore", success |-> FALSE, error |-> call.raised]
               /\ pc' = "raised"
               /\ UNCHANGED <<issued, phases, envOk, readable>>
          ELSE \E st \in {"ok", "fail"}, is_running \in BOOLEAN :
                 /\ issued' = Append(issued, RestoreCmd(DEST, checkpoint_iteration, FALSE, cfg.workload_type, st))
                 /\ readable' = readable \cup {<<DEST, checkpoint_iteration>>}
                 /\ envOk' = (st = "ok")
                 /\ IF st = "ok"
                    THEN /\ result' = [op |-> "_restore", success |-> TRUE,
                                       process_running |-> is_running]
                         /\ phases' = phases \o <<"Restored", "Verified">>
                         /\ pc' = "finalize"
                    ELSE /\ result' = [op |-> "_restore", success |-> FALSE,
                                       error |-> "Restore failed"]
                         /\ phases' = phases
                         /\ pc' = "raised"
    /\ UNCHANGED <<flags, procs, tracker_type, pool, timerVars, samplerVars, paceVars, mirrorVars, teardown, tracker_binaries, selected_tracker, args, collect_logs_calls, scripts, exit_code, metrics_file, dstPages, loop, ready_seen, images, cfg, workload, i, checkpoint_iteration, workload_pid, lazy_config,
                   dirty_tracker, sigterms, ssh_clients, srcDirs, dstDirs,
                   pre_dump_iterations, lazy_args, ebsDirs, bucket>>

NextRestore == ExperimentRestore

SpecRestore == InitRestore /\ [][NextRestore]_vars

(***************************************************************************)
(* Where the transfer puts the final checkpoint and where _restore looks   *)
(* for it.  A directory is a file system, the directory it lies in and its *)
(* name, the number of the checkpoint.                                     *)
(***************************************************************************)
WorkingDir == "/tmp/criu_checkpoint"     \* dirs.working_dir
WorkingDirName == "criu_checkpoint"      \* Path(working_dir).name
EbsMount == "/mnt/ebs_test"              \* transfer.ebs_mount
S3Prefix == "checkpoints"                \* transfer.s3_prefix
\* the values of transfer.dest_dir: not set, the working directory, another
DestDirs == {<<>>, <<WorkingDir>>, <<"/data">>}

Directory(fs, parent, name) == [fs |-> fs, parent |-> parent, name |-> name]

\* the file system behind a path on a host: with efs the working directory
\* is one shared file system, everything else is local to the host
FileSystem(host, parent, method) ==
    IF method = "efs" /\ parent = WorkingDir THEN "efs" ELSE host

\* str() of an optional path in an f-string
FormatPath(d) == IF d = <<>> THEN "None" ELSE d[1]

\* final_dump: checkpoint_dir = {working_dir}/{iteration}, on the source
FinalCheckpointDir(iteration, method) ==
    Directory(FileSystem(SOURCE, WorkingDir, method), WorkingDir, iteration)

\* TransferManager.transfer: where the checkpoint directory is afterwards,
\* other than where it was made
TransferTarget(method, checkpoint_dir, dest) ==
    CASE method = "rsync" ->
           Directory(FileSystem(DEST, FormatPath(dest), method), FormatPath(dest),
                     checkpoint_dir.name)
      [] method = "s3" -> Directory("s3", S3Prefix, 0)
      [] method = "efs" -> checkpoint_dir
      [] method = "ebs" ->
           Directory(FileSystem(SOURCE, EbsMount, method), EbsMount, checkpoint_dir.name)

\* _restore: dest_checkpoint_dir by the transfer method, on the destination
RestoreDirectory(method, final_checkpoint_dir, iteration) ==
    CASE method = "efs" ->
           Directory(FileSystem(DEST, final_checkpoint_dir.parent, method),
                     final_checkpoint_dir.parent, final_checkpoint_dir.name)
      [] method = "ebs" ->
           Directory(FileSystem(DEST, EbsMount, method), EbsMount \o "/" \o WorkingDirName,
                     iteration)
      [] OTHER ->
           Directory(FileSystem(DEST, WorkingDir, method), WorkingDir, iteration)

InitMirror ==
    /\ cfg \in {c \in Configs : /\ c.page_server_port = DefaultPort
                                /\ c.prefetch_workers = DefaultWorkers
                                /\ ~c.track_dirty_pages
                                /\ ~c.target_memory
                                /\ c.ready_timeout = MaxReadyTimeout
                                /\ c.workload_type = "memory"
                                /\ c.predump_iterations = (IF c.strategy = "predump" THEN MaxIter ELSE 0)}
    /\ workload = "set"
    /\ pc = "mirror"
    /\ i = 0
    /\ checkpoint_iteration \in Dirs
    /\ workload_pid = 1
    /\ lazy_config = LazyConfig(cfg.lazy_mode, cfg.page_server_port, cfg.prefetch_workers)
    /\ dirty_tracker = "none"
    /\ sigterms = 0
    /\ ssh_clients = {}
    /\ srcDirs = 1..checkpoint_iteration
    /\ dstDirs = {}
    /\ issued = <<>>
    /\ pre_dump_iterations = <<>>
    /\ phases = <<>>
    /\ envOk = TRUE
    /\ result = [success |-> TRUE]
    /\ lazy_args = <<>>
    /\ ebsDirs = {}
    /\ bucket = {}
    /\ images = {checkpoint_iteration}
    /\ loop = NoLoop
    /\ ready_seen = FALSE
    /\ dstPages = {}
    /\ metrics_file = <<>>
    /\ exit_code = <<>>
    /\ args = [collect_logs |-> FALSE, no_cleanup |-> FALSE]
    /\ collect_logs_calls = 0
    /\ scripts = {}
    /\ pool = NoClients
    /\ tracker_binaries = {}
    /\ selected_tracker = None
    /\ tracker_type = "auto"
    /\ flags = {}
    /\ procs = [h \in Hosts |-> "none"]
    /\ teardown = <<>>
    /\ readable = {}
    /\ NoSampler
    /\ NoPace
    /\ NoTimers
    /\ transfer_dest_dir \in DestDirs
    /\ placed = <<>>
    /\ dest_checkpoint_dir = <<>>

MirrorUnchanged ==
    UNCHANGED <<readable, flags, procs, tracker_type, pool, paceVars, teardown, tracker_binaries, selected_tracker, args, collect_logs_calls, scripts, exit_code,
                loop, ready_seen, cfg, workload, i, checkpoint_iteration, workload_pid, lazy_config, dirty_tracker, sigterms, ssh_clients, srcDirs, dstDirs, issued,
                pre_dump_iterations, phases, envOk, lazy_args, ebsDirs, bucket, images, dstPages, timerVars, samplerVars, metrics_file>>

\* _transfer_checkpoint: transfer(source, dest, final_checkpoint_dir);
\* RuntimeError when the transfer fails
MirrorTransfer ==
    /\ pc = "mirror"
    /\ \E st \in {"ok", "fail"} :
         IF st = "ok"
         THEN /\ placed' = <<TransferTarget(cfg.method,
                                FinalCheckpointDir(checkpoint_iteration, cfg.method), transfer_dest_dir)>>
              /\ result' = [success |-> TRUE]
              /\ pc' = "mirror_restore"
         ELSE /\ placed' = placed
              /\ result' = [success |-> FALSE, error |-> "Transfer failed"]
              /\ pc' = "mirror_failed"
    /\ UNCHANGED <<transfer_dest_dir, dest_checkpoint_dir>>
    /\ MirrorUnchanged

\* _restore: dest_checkpoint_dir, then the call of the restore with it
MirrorRestore ==
    /\ pc = "mirror_restore"
    /\ dest_checkpoint_dir' = <<RestoreDirectory(cfg.method,
                                  FinalCheckpointDir(checkpoint_iteration, cfg.method),
                                  checkpoint_iteration)>>
    /\ result' = [success |-> FALSE, error |-> ExperimentRestoreCall(lazy_config).raised]
    /\ pc' = "mirror_raised"
    /\ UNCHANGED <<transfer_dest_dir, placed>>
    /\ MirrorUnchanged

NextMirror ==
    \/ MirrorTransfer
    \/ MirrorRestore

SpecMirror == InitMirror /\ [][NextMirror]_vars


(***************************************************************************)
(* The polling loops, one iteration per step.  loop holds the locals of    *)
(* the loop in progress; times are in ticks of half a second.              *)
(***************************************************************************)
MemTimeout == 600         \* _wait_for_target_memory: timeout, seconds
CheckInterval == 2        \* _wait_for_target_memory: check_interval, seconds
KbPerMb == 1024
ExecTimeout == 300        \* final_dump: timeout of execute(wait_cmd), seconds
QuietSecs == 2            \* final_dump: idle_time at which the shell loop breaks
LazyPagesTimeout == 600   \* wait_for_lazy_pages_complete: timeout, seconds

\* date +%s and stat --format=%Y: whole seconds of a time given in ticks
Secs(t) == t \div TicksPerSec

PollUnchanged ==
    UNCHANGED <<readable, flags, procs, tracker_type, pool, timerVars, samplerVars, paceVars, mirrorVars, teardown, tracker_binaries, selected_tracker, args, collect_logs_calls, scripts, exit_code, metrics_file, dstPages, ready_seen, images, cfg, workload, i, checkpoint_iteration, workload_pid,
                lazy_config, dirty_tracker, sigterms, ssh_clients, srcDirs, dstDirs,
                issued, pre_dump_iterations, phases, envOk, lazy_args, ebsDirs, bucket>>

\* VmRSS values a poll may read: around the target, never below the last
\* one; a reading is <<kB>>, and <<>> when the command fails or prints nothing
Readings(l) ==
    {<<r>> : r \in {x \in {l.target_kb - 1, l.target_kb, l.target_kb + 1} :
                       l.last = <<>> \/ x >= l.last[1]}}

\* _wait_for_target_memory: the comparison of a reading with the target
TargetReached(current_kb, target_kb) == current_kb >= target_kb

\* _wait_for_target_memory, one iteration: read VmRSS, return True or sleep
\* check_interval
TargetMemoryPoll ==
    /\ pc = "target_memory"
    /\ loop.elapsed < MemTimeout * TicksPerSec
    /\ \E r \in Readings(loop) \cup {<<>>} :
         IF r # <<>> /\ TargetReached(r[1], loop.target_kb)
         THEN /\ loop' = [loop EXCEPT !.prev = loop.last, !.last = r]
              /\ result' = [reached |-> TRUE]
              /\ pc' = "final_dump"
         ELSE /\ loop' = [loop EXCEPT !.elapsed = @ + CheckInterval * TicksPerSec,
                                      !.prev = loop.last,
                                      !.last = IF r = <<>> THEN loop.last ELSE r]
              /\ UNCHANGED <<result, pc>>
    /\ PollUnchanged

\* _wait_for_target_memory, the loop condition fails: warning, return False;
\* _run_full_dump_strategy warns and goes on to _run_final_dump
TargetMemoryTimeout ==
    /\ pc = "target_memory"
    /\ loop.elapsed >= MemTimeout * TicksPerSec
    /\ result' = [reached |-> FALSE]
    /\ pc' = "final_dump"
    /\ UNCHANGED loop
    /\ PollUnchanged

\* final_dump with lazy_pages, one iteration of the remote shell loop:
\* latest mtime of the files under working_dir in whole seconds, idle time
\* against date +%s, break or sleep 0.5 (during which the dump may write)
QuiescePoll ==
    /\ pc = "quiesce"
    /\ loop.name = "quiesce"
    /\ loop.now - loop.start < ExecTimeout * TicksPerSec
    /\ LET latest_mod_time == Secs(loop.mtime)
           latest_change_time == IF latest_mod_time > loop.latest_change_time
                                 THEN latest_mod_time ELSE loop.latest_change_time
           idle_time == Secs(loop.now) - latest_change_time
       IN IF idle_time >= QuietSecs
          THEN /\ loop' = [loop EXCEPT !.latest_change_time = latest_change_time]
               /\ result' = [success |-> TRUE]
               /\ pc' = "quiesce_returned"
          ELSE /\ \E written \in BOOLEAN :
                    loop' = [loop EXCEPT !.latest_change_time = latest_change_time,
                                         !.now = @ + 1,
                                         !.mtime = IF written THEN loop.now + 1 ELSE @]
               /\ UNCHANGED <<result, pc>>
    /\ PollUnchanged

\* the shell loop has no bound of its own; when the timeout given to execute
\* is over, the SSH library either raises out of final_dump or keeps waiting
\* for the exit status
QuiesceExpiry ==
    /\ pc = "quiesce"
    /\ loop.name = "quiesce"
    /\ loop.now - loop.start >= ExecTimeout * TicksPerSec
    /\ \E outcome \in {"raised", "blocked"} :
         /\ loop' = [loop EXCEPT !.name = outcome]
         /\ IF outcome = "raised"
            THEN /\ result' = [success |-> FALSE, error |-> "timeout"]
                 /\ pc' = "quiesce_raised"
            ELSE UNCHANGED <<result, pc>>
    /\ PollUnchanged

\* wait_for_lazy_pages_complete, one iteration: pgrep, return or sleep 0.5
LazyPagesPoll ==
    /\ pc = "lazy_wait"
    /\ loop.elapsed < LazyPagesTimeout * TicksPerSec
    /\ \E running \in BOOLEAN :
         IF ~running
         THEN /\ result' = [completed |-> TRUE]
              /\ pc' = "lazy_wait_returned"
              /\ UNCHANGED loop
         ELSE /\ loop' = [loop EXCEPT !.elapsed = @ + 1]
              /\ UNCHANGED <<result, pc>>
    /\ PollUnchanged

\* wait_for_lazy_pages_complete, the loop condition fails: warning, completed False
LazyPagesTimedOut ==
    /\ pc = "lazy_wait"
    /\ loop.elapsed >= LazyPagesTimeout * TicksPerSec
    /\ result' = [completed |-> FALSE, error |-> "Timeout"]
    /\ pc' = "lazy_wait_returned"
    /\ UNCHANGED loop
    /\ PollUnchanged

\* each loop entered the way its caller enters it
InitPoll ==
    /\ cfg \in {c \in Configs : /\ c.strategy = "full"
                                /\ c.predump_iterations = 0
                                /\ c.lazy_mode = "none"
                                /\ c.page_server_port = DefaultPort
                                /\ c.prefetch_workers = DefaultWorkers
                                /\ c.method = "rsync"
                                /\ c.workload_type = "memory"
                                /\ ~c.track_dirty_pages
                                /\ c.target_memory}
    /\ workload = "set"
    /\ \/ /\ pc = "wait_for_ready"
          /\ loop = [name |-> "wait_for_ready", elapsed |-> 0]
       \/ /\ pc = "target_memory"
          /\ \E target_mb \in 1..MaxTargetMb :
               loop = [name |-> "wait_for_target_memory", elapsed |-> 0,
                       target_kb |-> target_mb * KbPerMb, prev |-> <<>>, last |-> <<>>]
       \/ /\ pc = "quiesce"
          /\ \E start \in 0..(TicksPerSec - 1), mtime \in 0..(TicksPerSec - 1) :
               /\ mtime <= start
               /\ loop = [name |-> "quiesce", start |-> start, now |-> start,
                          mtime |-> mtime, latest_change_time |-> Secs(start)]
       \/ /\ pc = "lazy_wait"
          /\ loop = [name |-> "wait_for_lazy_pages_complete", elapsed |-> 0]
    /\ i = 0
    /\ checkpoint_iteration = 0
    /\ workload_pid = 1
    /\ lazy_config = NoLazyConfig
    /\ dirty_tracker = "none"
    /\ sigterms = 0
    /\ ssh_clients = {SOURCE}
    /\ srcDirs = {}
    /\ dstDirs = {}
    /\ issued = <<>>
    /\ pre_dump_iterations = <<>>
    /\ phases = <<"Init", "PreparedNodes">>
    /\ envOk = TRUE
    /\ result = "none"
    /\ lazy_args = <<>>
    /\ ebsDirs = {}
    /\ bucket = {}
    /\ images = {}
    /\ ready_seen = FALSE
    /\ dstPages = {}
    /\ metrics_file = <<>>
    /\ exit_code = <<>>
    /\ args = [collect_logs |-> FALSE, no_cleanup |-> FALSE]
    /\ collect_logs_calls = 0
    /\ scripts = {}
    /\ pool = NoClients
    /\ tracker_binaries = {}
    /\ selected_tracker = None
    /\ tracker_type = "auto"
    /\ flags = {}
    /\ procs = [h \in Hosts |-> "none"]
    /\ teardown = <<>>
    /\ readable = {}
    /\ NoSampler
    /\ NoPace
    /\ NoMirror
    /\ NoTimers

NextPoll ==
    \/ ReadyPoll
    \/ ReadyTimeout
    \/ TargetMemoryPoll
    \/ TargetMemoryTimeout
    \/ QuiescePoll
    \/ QuiesceExpiry
    \/ LazyPagesPoll
    \/ LazyPagesTimedOut

SpecPoll == InitPoll /\ [][NextPoll]_vars

(***************************************************************************)
(* Properties                                                              *)
(***************************************************************************)
TransferOps == {"rsync", "s3-sync-upload", "du", "rsync-ebs"}
LiveModes == {"live-migration", "live-migration-prefetch"}

\* the number of pre-dumps the configuration asks for
ConfiguredPreDumps == IF cfg.strategy = "predump" THEN cfg.predump_iterations ELSE 0

\* a run with a workload set in which no command or subprocess failed has returned
CleanRunOver == pc = "done" /\ workload = "set" /\ envOk

\* C1: the remote phases are issued in sequence, each only after the one
\* before reported success: pre-dump N after a successful pre-dump N-1 and
\* after no pre-dump of a higher number, the dump after all configured
\* pre-dumps succeeded, the transfer after a successful dump, restore after a
\* successful transfer; a failed pre-dump, dump or transfer is the last phase
\* command of the run.
C1_PhasesInSequence ==
    \A k \in 1..Len(issued) :
      LET c == issued[k] IN
        /\ c.op = "pre-dump" =>
             /\ \A j \in 1..(k - 1) : issued[j].op = "pre-dump" => issued[j].dir < c.dir
             /\ c.dir > 1 => \E j \in 1..(k - 1) : /\ issued[j].op = "pre-dump"
                                                  /\ issued[j].dir = c.dir - 1
                                                  /\ issued[j].st = "ok"
        /\ c.op = "dump" =>
             \A n \in 1..ConfiguredPreDumps :
               \E j \in 1..(k - 1) : /\ issued[j].op = "pre-dump"
                                    /\ issued[j].dir = n
                                    /\ issued[j].st = "ok"
        /\ c.op \in TransferOps =>
             \E j \in 1..(k - 1) : issued[j].op = "dump" /\ issued[j].st \in {"ok", "bg"}
        /\ c.op = "restore" =>
             \E j \in 1..(k - 1) : issued[j].op \in TransferOps /\ issued[j].st = "ok"
        /\ (c.op \in {"pre-dump", "dump"} \cup TransferOps /\ c.st = "fail") =>
             k = Len(issued)

\* pre-dump 2 was issued after pre-dump 1 succeeded, it failed, and the run is over
C1_Witness ==
    /\ pc = "done"
    /\ Len(issued) = 2
    /\ issued[1].st = "ok"
    /\ issued[2].op = "pre-dump" /\ issued[2].dir = 2 /\ issued[2].st = "fail"

\* the orchestrator states of a complete run, in order
ExpectedPhases ==
    <<"Init", "PreparedNodes", "WorkloadRunning">>
    \o (IF cfg.track_dirty_pages THEN <<"DirtyTracking">> ELSE <<>>)
    \o <<IF cfg.strategy = "predump" THEN "PredumpLoop" ELSE "TriggerWait">>
    \o <<"FinalDumped", "Transferred", "Restored", "Verified", "Finalized">>

\* C2: a run with a workload set in which every remote command and local
\* subprocess succeeds passes Init, PreparedNodes, WorkloadRunning,
\* (DirtyTracking), PredumpLoop or TriggerWait, FinalDumped, Transferred,
\* Restored, Verified, Finalized in that order and returns success = true.
C2_CleanRunSucceeds ==
    CleanRunOver => (result.success /\ phases = ExpectedPhases)

C4_FinalDumpWritesNextDir ==
    CleanRunOver =>
      LET K == Len(pre_dump_iterations) IN
        /\ (K + 1) \in srcDirs
        /\ \E k \in 1..Len(issued) :
             /\ issued[k].op = "dump"
             /\ issued[k].dir = K + 1
             /\ issued[k].prev = IF K > 0 THEN <<K>> ELSE <<>>

\* C5: whenever restore is invoked on the destination for a checkpoint
\* directory N > 1 (that is on the destination), the directories 1..N-1 are
\* on the destination too.
C5_PredecessorsOnDestination ==
    \A k \in 1..Len(issued) :
      ( /\ issued[k].op = "restore"
        /\ issued[k].host = DEST
        /\ issued[k].dir > 1
        /\ issued[k].dir \in dstDirs )
      => (1..(issued[k].dir - 1)) \subseteq dstDirs

\* the argument table of the five modes for port 27, bind address 0.0.0.0,
\* 4 prefetch workers and page server host 10.0.0.1
LazyArgTable(mode) ==
    CASE mode = "none" ->
           [dump |-> <<>>, restore |-> <<>>, daemon |-> <<>>]
      [] mode = "lazy" ->
           [dump |-> <<>>, restore |-> <<"--lazy-pages">>, daemon |-> <<>>]
      [] mode = "lazy-prefetch" ->
           [dump |-> <<>>, restore |-> <<"--lazy-pages">>,
            daemon |-> <<"--async-prefetch", "--prefetch-workers", "4">>]
      [] mode = "live-migration" ->
           [dump |-> <<"--lazy-pages", "--address", "0.0.0.0", "--port", "27">>,
            restore |-> <<"--lazy-pages">>,
            daemon |-> <<"--page-server", "--address", "10.0.0.1", "--port", "27">>]
      [] mode = "live-migration-prefetch" ->
           [dump |-> <<"--lazy-pages", "--address", "0.0.0.0", "--port", "27">>,
            restore |-> <<"--lazy-pages">>,
            daemon |-> <<"--page-server", "--address", "10.0.0.1", "--port", "27",
                         "--async-prefetch", "--prefetch-workers", "4">>]

\* C6: with port 27, bind address 0.0.0.0, 4 workers and page server host
\* 10.0.0.1 the dump, restore and lazy-pages daemon arguments of each of the
\* five modes are exactly those of the table.
C6_LazyArgTable ==
    ( /\ pc = "lazy_done"
      /\ lazy_config.page_server_port = 27
      /\ lazy_config.page_server_address = "0.0.0.0"
      /\ lazy_config.prefetch_workers = 4
      /\ lazy_args.page_server_host = "10.0.0.1" )
    => /\ lazy_args.dump = LazyArgTable(lazy_config.mode).dump
       /\ lazy_args.restore = LazyArgTable(lazy_config.mode).restore
       /\ lazy_args.daemon = LazyArgTable(lazy_config.mode).daemon

\* the vectors of LIVE_MIGRATION_PREFETCH with the default settings were derived
C6_Witness ==
    /\ pc = "lazy_done"
    /\ lazy_config.mode = "live-migration-prefetch"
    /\ lazy_config.page_server_port = 27
    /\ lazy_config.prefetch_workers = 4
    /\ lazy_args.page_server_host = "10.0.0.1"
    /\ Len(lazy_args.daemon) = 8

C8_PageServerDaemonRestore ==
    (CleanRunOver /\ cfg.lazy_mode \in LiveModes) =>
      \E a, b, c, d \in 1..Len(issued) :
        /\ a < b /\ b < c /\ c < d
        /\ issued[a].op = "dump" /\ issued[a].host = SOURCE /\ issued[a].lazy
        /\ issued[b].op = "lazy-pages" /\ issued[b].host = DEST
        /\ issued[c].op = "sleep" /\ issued[c].dir = SettleSecs
        /\ issued[d].op = "restore" /\ issued[d].host = DEST /\ issued[d].lazy

\* C9: in a LIVE_MIGRATION or LIVE_MIGRATION_PREFETCH run with
\* page_server_port P the dump on the source carries
\* --lazy-pages --address 0.0.0.0 --port P and the lazy-pages daemon on the
\* destination carries --page-server --address {source} --port P.
C9_PortsAgree ==
    (CleanRunOver /\ cfg.lazy_mode \in LiveModes) =>
      \E a, b \in 1..Len(issued) :
        /\ issued[a].op = "dump" /\ issued[a].host = SOURCE /\ issued[a].lazy
        /\ issued[a].addr = BindAddress /\ issued[a].port = cfg.page_server_port
        /\ issued[b].op = "lazy-pages" /\ issued[b].host = DEST
        /\ issued[b].addr = SOURCE /\ issued[b].port = cfg.page_server_port

\* C10: whenever criu restore is invoked with --lazy-pages, a criu lazy-pages
\* daemon was launched on the same host earlier in the same restore operation.
C10_DaemonBeforeLazyRestore ==
    \A k \in 1..Len(issued) :
      (issued[k].op = "restore" /\ issued[k].lazy) =>
        \E j \in 1..(k - 1) : /\ issued[j].op = "lazy-pages"
                             /\ issued[j].host = issued[k].host
                             /\ issued[j].call = issued[k].call

\* C11: a final dump whose CRIU command failed is reported as failed, for
\* the synchronous dump and for the dump handed over in the background with
\* a page-server alike, so that the caller aborts: final_dump returns
\* success only when the dump directory holds the images of a completed dump.
C11_FailedDumpReported ==
    (issued # <<>> /\ issued[Len(issued)].op = "dump" /\ result.success)
      => issued[Len(issued)].dir \in images

\* C12: no pre-dump and no dump is issued unless a poll of wait_for_ready
\* has seen the readiness file on the source; a run does not get past
\* wait_for_ready without it, and a run whose workload started but whose
\* readiness file was not seen within the timeout ends with the ready-timeout
\* error and success = false.
C12_ReadyBeforeDump ==
    /\ \A k \in 1..Len(issued) : issued[k].op \in {"pre-dump", "dump"} => ready_seen
    /\ ~ready_seen => pc \in {"main", "deploy_source", "deploy_dest", "exit",
                             "run", "start_workload", "wait_for_ready", "finally", "done"}
    /\ (pc = "done" /\ workload_pid # 0 /\ ~ready_seen)
         => result = [success |-> FALSE, error |-> "TimeoutError"]

\* the readiness file was not seen in any poll of a one-second timeout and the run is over
C12_Witness ==
    /\ pc = "done"
    /\ cfg.ready_timeout > 0
    /\ workload_pid # 0
    /\ ~ready_seen
    /\ issued = <<>>
    /\ result = [success |-> FALSE, error |-> "TimeoutError"]

\* C13: every polling loop ends by its timeout even when what it waits for
\* never happens: a loop in progress has not run past its timeout, the
\* target-memory loop and the quiescence loop of the page-server dump go on
\* after a warning when the timeout is over (the latter neither raises nor
\* keeps waiting), and the readiness loop fails the run.
C13_LoopsEndByTimeout ==
    /\ pc = "wait_for_ready" => loop.elapsed <= cfg.ready_timeout * TicksPerSec
    /\ pc = "target_memory" => loop.elapsed <= MemTimeout * TicksPerSec
    /\ pc = "lazy_wait" => loop.elapsed <= LazyPagesTimeout * TicksPerSec
    /\ pc = "quiesce" => /\ loop.name = "quiesce"
                         /\ loop.now - loop.start <= ExecTimeout * TicksPerSec
    /\ pc # "quiesce_raised"
    /\ (loop.name = "wait_for_target_memory" /\ pc # "target_memory") => pc = "final_dump"
    /\ pc = "finally" => result = [success |-> FALSE, error |-> "TimeoutError"]

\* C14: the mtime loop of the page-server dump returns once the latest
\* modification time under working_dir has been frozen for 2 seconds, and
\* not before: when it has returned, the latest modification is at least
\* 2 seconds old, and while it runs, the latest modification (or the start
\* of the loop) is at most 2 seconds old.
C14_QuiescenceTwoSeconds ==
    /\ pc = "quiesce_returned" => loop.now - loop.mtime >= QuietSecs * TicksPerSec
    /\ (pc = "quiesce" /\ loop.name = "quiesce") =>
         \/ loop.now - loop.mtime <= QuietSecs * TicksPerSec
         \/ loop.now - loop.start <= QuietSecs * TicksPerSec

\* C15: the target-memory wait returns true exactly at the poll whose VmRSS
\* reading is the first above target_mb * 1024 kB: the reading it returned
\* on is above the target and the one before was not, no reading above (or
\* at) the target leaves it waiting, and when no reading does so within
\* 600 s it returns false and the run goes on to the final dump.
C15_TargetMemoryFirstAbove ==
    loop.name = "wait_for_target_memory" =>
      /\ (pc = "final_dump" /\ result.reached) =>
           /\ loop.last # <<>> /\ loop.last[1] > loop.target_kb
           /\ loop.prev = <<>> \/ loop.prev[1] <= loop.target_kb
      /\ pc = "target_memory" => (loop.last = <<>> \/ loop.last[1] <= loop.target_kb)
      /\ (pc = "final_dump" /\ ~result.reached) => loop.elapsed >= MemTimeout * TicksPerSec

\* the option that keeps the page images out of an aws s3 sync
ExcludePages == "--exclude 'pages-*.img'"

C17_S3UploadThenDownload ==
    \A k \in 1..Len(issued) :
      (issued[k].op = "s3-sync-upload" /\ issued[k].st = "ok") =>
        /\ \E j \in (k + 1)..Len(issued) : /\ issued[j].op = "s3-sync-download"
                                          /\ issued[j].call = issued[k].call
        /\ issued[k].dir \in dstDirs

\* the page images of a directory can be read on the destination
PagesOnDest(dir) == IF cfg.method = "efs" THEN dir \in dstDirs ELSE dir \in dstPages

\* C18: in modes NONE and LAZY, once the transfer of the final checkpoint
\* directory has succeeded, every pages-*.img of that directory is on the
\* destination, whatever the transfer method.
C18_PagesInBulk ==
    cfg.lazy_mode \in {"none", "lazy"} =>
      \A k \in 1..Len(issued) :
        (issued[k].op \in TransferOps /\ issued[k].st = "ok") => PagesOnDest(issued[k].dir)

\* a command line that hands the object store to CRIU
HasObjectStorageArgs(c) ==
    /\ "argv" \in DOMAIN c
    /\ \E n \in 1..Len(c.argv) : c.argv[n] = "--enable-object-storage"

\* C19: requires_s3() is true exactly for LAZY_PREFETCH and
\* LIVE_MIGRATION_PREFETCH, and under a configuration with one of these
\* modes no criu restore is issued unless a lazy-pages daemon carrying the
\* object-storage arguments was launched before it in the same restore.
C19_PrefetchNeedsObjectStorage ==
    /\ \A m \in LazyModes :
         requires_s3(LazyConfig(m, DefaultPort, DefaultWorkers)) <=> m \in PrefetchModes
    /\ cfg.lazy_mode \in PrefetchModes =>
         \A k \in 1..Len(issued) :
           issued[k].op = "restore" =>
             \E j \in 1..(k - 1) : /\ issued[j].op = "lazy-pages"
                                  /\ issued[j].call = issued[k].call
                                  /\ HasObjectStorageArgs(issued[j])

\* C20: every aborted run still writes the metrics document, and a run that
\* failed in pre-dump 2 has a second pre_dump_iterations entry
C20_MetricsWrittenOnAbort ==
    exit_code = <<1>> =>
      /\ metrics_file # <<>>
      /\ (result.error = "Pre-dump failed" /\ i = 2) => Len(pre_dump_iterations) >= 2
\* C21: a program that was asked to collect logs and ends in failure has
\* called collect_logs before it returned
C21_LogsCollectedOnFailure ==
    (exit_code = <<1>> /\ args.collect_logs) => collect_logs_calls >= 1
\* C22: when _restore has been called and the CRIU restore command would
\* succeed, it does not raise: it returns with process_running recorded in
\* the restore metrics, true or false, and the run goes on to finalize
C22_NotRunningDoesNotAbort ==
    (pc \in {"raised", "finalize"} /\ envOk) =>
      /\ pc = "finalize"
      /\ result.success
      /\ result.process_running \in BOOLEAN
\* the orchestrator state p has been passed
InPhases(p) == \E n \in 1..Len(phases) : phases[n] = p

\* every command handed to a host so far has succeeded
AllIssuedOk == \A k \in 1..Len(issued) : issued[k].st = "ok"

\* C23: with dirty tracking enabled the tracker runs only after the readiness
\* file was seen, no pre-dump or dump is issued before the step that starts
\* it, and in a run without failures it has been stopped (step 3.5, before the
\* transfer) by the time the finally clause of run() is entered.
C23_TrackerStartedAndStopped ==
    /\ dirty_tracker = "started" => (ready_seen /\ InPhases("WorkloadRunning"))
    /\ pc \in {"run", "start_workload", "wait_for_ready", "dirty_tracking"} => issued = <<>>
    /\ (pc = "finally" /\ workload = "set" /\ envOk) => dirty_tracker = "none"

\* tracking was asked for, the workload is ready, and the start of the tracker failed
TrackerStartFailed ==
    /\ cfg.track_dirty_pages
    /\ InPhases("WorkloadRunning") /\ pc # "dirty_tracking"
    /\ ~InPhases("DirtyTracking")

\* C24: when the tracker cannot be started the run goes on without it: no
\* tracker is held, no stop signal is ever sent, and a run whose commands
\* all succeed passes the dump, the transfer and the restore.
C24_TrackerFailureIgnored ==
    TrackerStartFailed =>
      /\ dirty_tracker = "none" /\ sigterms = 0
      /\ pc \notin {"finally", "done"} => result = "none"
      /\ (pc = "done" /\ AllIssuedOk) =>
           (InPhases("FinalDumped") /\ InPhases("Transferred") /\ InPhases("Restored"))
\* C25: with tracker type auto, start selects the first of c, go, python
\* whose binary is on the host, for every set of binaries present; it
\* selects none only when none is present, and then start reports failure.
C25_FirstPresentBackend ==
    (pc \in {"tracker_started", "tracker_failed"} /\ tracker_type = "auto") =>
      /\ selected_tracker = None <=> tracker_binaries = {}
      /\ "c" \in tracker_binaries => selected_tracker = "c"
      /\ ("c" \notin tracker_binaries /\ "go" \in tracker_binaries) => selected_tracker = "go"
      /\ tracker_binaries = {"python"} => selected_tracker = "python"
      /\ selected_tracker = None => (pc = "tracker_failed" /\ ~result.success)

\* go and python are present, c is not: go was selected and launched
C25_Witness ==
    /\ pc = "tracker_started" /\ tracker_type = "auto"
    /\ tracker_binaries = {"go", "python"}
    /\ selected_tracker = "go"
    /\ result.success
\* C26: after an execute that failed in the transport (connect or command)
\* the failed session is discarded, so that the next call for the host opens
\* a fresh one: the host has no client left, or one without a paramiko
\* client; and an execute on a host whose session had failed before opens a
\* session.  The failed execute itself makes one attempt.
C26_FailedSessionDiscarded ==
    result.op = "execute" =>
      /\ result.raised # "none" =>
           (result.host \notin DOMAIN pool \/ pool[result.host].client = "None")
      /\ result.client \in {"unconnected", "dead"} => result.opened

\* C27: the client handed out for (host, user) authenticates as user; a
\* client is created without a connection; a host has a client per user.
C27_OneSessionPerHostAndUser ==
    /\ result.op \in {"get_ssh_client", "execute"} => result.username = result.requested
    /\ (result.op = "get_ssh_client" /\ result.created) => result.client = "None"
\* C28: when the program has ended, on success or failure, no SSH session
\* is left open: every client handed out by get_ssh_client, those of
\* collect_logs and cleanup_processes after run() included, has been closed.
C28_SessionsClosedAtEnd ==
    exit_code # <<>> => ssh_clients = {}
\* C29: the standalone script deployed to both hosts is in the source's
\* working directory when the workload is launched and is still in the
\* destination's working directory from then on, for the restore to find.
C29_ScriptPresentWhenNeeded ==
    workload_pid # 0 => (SOURCE \in scripts /\ DEST \in scripts)

\* C30: checkpoint_flag is in the source's working directory once the
\* workload has been started, and since the orchestrator has not removed
\* the flag, no workload process, on the source or restored on the
\* destination, has taken its exit path (every command having succeeded).
C30_ExitOnlyAfterFlagRemoved ==
    envOk =>
      /\ procs[SOURCE] = "running" => SOURCE \in flags
      /\ \A h \in Hosts : procs[h] # "exited"
\* C31: a timer named X that was started and stopped is in the serialized
\* collector as a record named X whose duration is end_time minus
\* start_time and is the duration the timer measured, and the JSON written
\* deserializes into records equal to the collector's, field by field.
C31_MetricsRoundTrip ==
    /\ \A n \in DOMAIN custom_metrics :
         /\ custom_metrics[n].name = n
         /\ custom_metrics[n].duration = custom_metrics[n].end_time - custom_metrics[n].start_time
    /\ (metric # <<>> /\ metric[1].name \in DOMAIN custom_metrics /\ metric[1].name \notin DOMAIN active_timers)
          => custom_metrics[metric[1].name].duration = metric[1].duration
    /\ \A n \in DOMAIN custom_metrics :
         json_loads(json_dumps(custom_metrics[n], TimingMetricFields)) = custom_metrics[n]
    /\ metrics_file # <<>> =>
         \A n \in DOMAIN metrics_file[1] :
           json_loads(metrics_file[1][n]).duration
             = json_loads(metrics_file[1][n]).end_time - json_loads(metrics_file[1][n]).start_time
\* C32: in a run with workload type redis whose restore command succeeds,
\* _restore goes on to the workload-level health check (redis-cli ping,
\* then dbsize on PONG), records its result and the run continues.
C32_RedisHealthCheck ==
    (pc \in {"raised", "finalize"} /\ cfg.workload_type = "redis" /\ envOk) =>
      /\ pc = "finalize"
      /\ "verify_workload_health" \in RestoreVerifications
\* C33: the program ends with exit code 0 exactly when run() returned
\* success, and with 1 after every failure: a configuration error, a failed
\* deployment on either host, a failed phase or an exception in run().
C33_ExitCodes ==
    exit_code # <<>> =>
      IF pc = "done"
      THEN exit_code = (IF result.success THEN <<0>> ELSE <<1>>)
      ELSE exit_code = <<1>>

\* run() failed in a phase and main has returned 1
C33_Witness ==
    /\ pc = "done" /\ exit_code = <<1>>
    /\ ~result.success /\ result.error = "Pre-dump failed"
\* the CRIU command c has exited with a failure: a dump that fails leaves no
\* image set in its directory (imgs is the set of directories holding one)
CriuFailed(c, imgs) == IF c.op = "dump" THEN c.dir \notin imgs ELSE c.st = "fail"

\* C34: when pre_dump, final_dump or restore returns, the checkpoint
\* directory of its CRIU command has been made readable, whether the command
\* succeeded or not, and when the command exited with a failure the operation
\* returns an error record (success = false) with the tail of the CRIU log.
C34_ChmodAndErrorRecord ==
    [][(Len(issued') = Len(issued) + 1
          /\ issued'[Len(issued')].op \in {"pre-dump", "dump", "restore"}) =>
         LET c == issued'[Len(issued')] IN
           /\ <<c.host, c.dir>> \in readable'
           /\ CriuFailed(c, images') => (~result'.success /\ result'.log_content = LogTail)]_vars
\* C35: a newly discovered PID has its soft-dirty bits cleared before it is
\* first sampled; a scan leaves no PID tracked that has exited, and a PID once
\* dead is not tracked again; no PID is tracked and dead at once; the
\* pids_tracked of every sample is exactly the set of PIDs that were read.
C35_SamplerFollowsTree ==
    /\ [](/\ \A n \in 1..Len(samples) :
               /\ samples[n].uncleared = {}
               /\ samples[n].pids_tracked = samples[n].pids_read
          /\ process_trackers \cap dead_pids = {})
    /\ [][/\ (\E t \in Tids : threads[t].at = "wait" /\ threads'[t].at = "scan")
               => process_trackers' \subseteq alive'
          /\ \A p \in dead_pids : p \in dead_pids' => p \notin process_trackers']_vars

\* C39: at most one sampling thread runs; start() on a started tracker raises
\* and changes nothing; when stop() has returned the thread has terminated and
\* appends no further sample; start() after stop() begins with no samples.
C39_StartStopThread ==
    /\ [](/\ Cardinality(Running) <= 1
          /\ (tracking_thread = <<>> /\ caller = "idle") => Running = {})
    /\ [][/\ (tracking_thread # <<>> /\ caller = "idle" /\ caller' = "idle"
                /\ tracking_thread' # <<>> /\ last_call' # last_call)
               => (last_call' = "start raised" /\ samples' = samples /\ threads' = threads
                   /\ stop_event' = stop_event /\ process_trackers' = process_trackers)
          /\ (tracking_thread = <<>> /\ tracking_thread' = <<>>) => samples' = samples
          /\ (tracking_thread = <<>> /\ tracking_thread' # <<>>) => samples' = <<>>]_vars
\* the pre-dumps that have completed: the pre-dump commands that exited with success
CompletedPreDumps == SelectSeq(issued, LAMBDA c : c.op = "pre-dump" /\ c.st = "ok")

\* C36: at any point of a run the metrics hold one pre_dump_iterations entry
\* for each pre-dump that has completed, in the order pre_dump_1, pre_dump_2,
\* ...; once the loop of K pre-dumps is over, and up to the end of the run,
\* there are exactly K entries.
C36_PreDumpEntries ==
    /\ Len(pre_dump_iterations) = Len(CompletedPreDumps)
    /\ \A n \in 1..Len(pre_dump_iterations) :
         pre_dump_iterations[n] = n /\ CompletedPreDumps[n].dir = n
    /\ (pc = "final_dump" \/ (pc \in {"finally", "done"} /\ result.error = "TypeError"))
         => Len(pre_dump_iterations) = ConfiguredPreDumps

\* a run of two pre-dumps has ended (in the final dump) with both recorded
C36_Witness ==
    /\ pc = "done" /\ result.error = "TypeError"
    /\ cfg.strategy = "predump" /\ cfg.predump_iterations = 2
    /\ pre_dump_iterations = <<1, 2>>
\* C37: pre-dump n+1 never starts less than predump_interval after pre-dump
\* n started; an iteration n < K that took less than the interval sleeps the
\* remainder; an iteration that took the interval or longer, and the last
\* one, sleep nothing.
C37_IntervalFloor ==
    \A n \in 1..Len(pace) :
      /\ n < Len(pace) => pace[n + 1].start - pace[n].start >= interval
      /\ (pace[n].ok /\ pace[n].elapsed < interval /\ n < num_iterations)
           => pace[n].slept = interval - pace[n].elapsed
      /\ (pace[n].elapsed >= interval \/ n = num_iterations) => pace[n].slept = 0

\* a fast pre-dump was followed by a sleep and the next one started exactly
\* one interval after it
C37_Witness ==
    /\ Len(pace) = 2 /\ interval = 2
    /\ pace[1].elapsed = 1 /\ pace[1].slept = 1
    /\ pace[2].start = pace[1].start + interval
\* C38: for every transfer method the directory _restore passes to the
\* restore on the destination is the directory in which the transfer has put
\* the final checkpoint.
C38_RestoresWhatWasTransferred ==
    dest_checkpoint_dir # <<>> => dest_checkpoint_dir = placed
\* C40: however run() ends, a tracker that was started is sent SIGTERM exactly
\* once, and before the SSH connections are closed; a tracker that was not
\* started is never sent a signal.
C40_TrackerStoppedOnce ==
    /\ sigterms <= 1
    /\ ~InPhases("DirtyTracking") => (sigterms = 0 /\ dirty_tracker = "none")
    /\ InPhases("DirtyTracking") => (dirty_tracker = "started" <=> sigterms = 0)
    /\ (pc = "done" /\ InPhases("DirtyTracking")) =>
         (sigterms = 1 /\ teardown = <<"SIGTERM", "close_all_connections">>)
    /\ (pc = "done" /\ ~InPhases("DirtyTracking") /\ teardown # <<>>) =>
         teardown = <<"close_all_connections">>

\* a run whose tracker was started has ended: one signal, then the close
C40_Witness ==
    /\ pc = "done" /\ InPhases("DirtyTracking")
    /\ sigterms = 1 /\ dirty_tracker = "none"
    /\ teardown = <<"SIGTERM", "close_all_connections">>
    /\ ssh_clients = {}
====
